---- MODULE Spec2Model ----
(***************************************************************************)
(* Stock-state reconstruction engine of analyzer/calculator.py             *)
(* (AnalysisCalculator): per-case event tracking, monthly warehouse and    *)
(* site aggregation, TOTAL rows, and reconciliation of movement-derived    *)
(* stock against the reported on-hand quantities.                          *)
(*                                                                         *)
(* Encoding of Python/pandas values:                                       *)
(*   - a str whose order or content matters (a 'YYYY-MM' month string,     *)
(*     the label 'TOTAL') is the sequence of its character codes, and      *)
(*     str comparison is lexicographic comparison of these sequences;      *)
(*   - a Timestamp is <<year, month, day>>, NaT is <<>>;                    *)
(*   - None is the string "None";                                          *)
(*   - the Korean event types and column suffixes are transliterated:      *)
(*     "ipgo" (inbound), "chulgo" (outbound), "jaego" (stock),             *)
(*     "nujeok_ipgo" (cumulative inbound);                                 *)
(*   - a column name f'{loc}_{suffix}' is the pair <<loc, suffix>>;        *)
(*   - a DataFrame is the sequence of its rows, a row a record.            *)
(***************************************************************************)
EXTENDS Integers, Sequences, FiniteSets, TLC

VARIABLES
    config,           \* AnalysisCalculator.config
    movement_data,    \* AnalysisCalculator.movement_data: supplier -> table
    onhand_data,      \* AnalysisCalculator.onhand_data: table of (case_no, quantity)
    supplier,         \* the supplier run_supplier_case_analysis is processing
    pc,               \* position in the run
    i,                \* _track_case_events: index of the row being walked
    events,           \* _track_case_events: the row's sorted event list
    k,                \* _track_case_events: number of events of the row walked so far
    prev_loc,         \* _track_case_events: prev_loc
    prev_type,        \* _track_case_events: prev_type
    case_status,      \* _track_case_events: case_status
    event_map,        \* _track_case_events: event_map
    month_strs,       \* _process_supplier: month_strs
    warehouse_df,     \* _process_supplier: warehouse_df
    site_df,          \* _process_supplier: site_df
    calculated_stock, \* run_stock_verification: calculated_stock
    discrepancies,    \* run_stock_verification: its return value
    consolidated_monthly, \* run_monthly_warehouse_analysis: its return value
    files,            \* the files of FILE_CONFIG: whether they exist, can be read, their table
    normalized,       \* DataNormalizer.normalize: its return value
    all_reports       \* run_supplier_case_analysis: all_reports

vars == <<config, movement_data, onhand_data, supplier, pc, i, events, k,
          prev_loc, prev_type, case_status, event_map, month_strs,
          warehouse_df, site_df, calculated_stock, discrepancies,
          consolidated_monthly, files, normalized,
                   all_reports>>

-----------------------------------------------------------------------------
(* Bounds and sample input domains *)

\* largest number of rows of a supplier's movement table, of the movement
\* tables of the reconciliation together, and of the on-hand table
MaxRows == 2

\* largest number of timestamps in a supplier's table of the monthly analysis
MaxEvents == 4

NaT == <<>>

None == "None"

\* sample timestamps: two months up to the target month, one after it
Timestamps == { <<2025, 1, 15>>, <<2025, 2, 10>>, <<2025, 7, 1>> }

\* timestamps of the single-case walk: also a second day of a month and a
\* month of the previous year
CaseTimestamps == Timestamps \cup { <<2024, 12, 20>>, <<2025, 1, 20>> }

\* case ids, in ascending str order
CaseIds == << "C1", "C2", "C3", "C4" >>

-----------------------------------------------------------------------------
(* Sequences and str order *)

Range(s) == { s[n] : n \in DOMAIN s }

Min(a, b) == IF a <= b THEN a ELSE b

\* a < b for two sequences of numbers, lexicographically (str.__lt__,
\* Timestamp.__lt__ on <<year, month, day>>)
LexLT(a, b) ==
    LET n == Min(Len(a), Len(b)) IN
    \/ \E p \in 1..n : a[p] < b[p] /\ \A q \in 1..(p - 1) : a[q] = b[q]
    \/ Len(a) < Len(b) /\ \A q \in 1..n : a[q] = b[q]

LexLE(a, b) == a = b \/ LexLT(a, b)

\* the elements of s that are in the set keep, in order
RECURSIVE SelectSeqBy(_, _)
SelectSeqBy(s, keep) ==
    IF s = <<>> THEN <<>>
    ELSE IF Head(s) \in keep THEN <<Head(s)>> \o SelectSeqBy(Tail(s), keep)
    ELSE SelectSeqBy(Tail(s), keep)

\* sum(f(x) for x in s)
RECURSIVE SumSeq(_)
SumSeq(s) == IF s = <<>> THEN 0 ELSE Head(s) + SumSeq(Tail(s))

\* the number of positions of s whose element is in the set keep
CountIn(s, keep) == Cardinality({ n \in DOMAIN s : s[n] \in keep })

-----------------------------------------------------------------------------
(* Dates and months *)

\* date.to_period('M')
to_period_M(date) == << date[1], date[2] >>

\* str(period) of a monthly period: 'YYYY-MM'
PeriodStr(p) ==
    << 48 + (p[1] \div 1000), 48 + ((p[1] \div 100) % 10),
       48 + ((p[1] \div 10) % 10), 48 + (p[1] % 10), 45,
       48 + (p[2] \div 10), 48 + (p[2] % 10) >>

\* str(date.to_period('M'))
MonthOf(date) == PeriodStr(to_period_M(date))

\* the label 'TOTAL'
TOTAL == << 84, 79, 84, 65, 76 >>

\* config.TARGET_MONTH = "2025-06"
TARGET_MONTH == << 50, 48, 50, 53, 45, 48, 54 >>

-----------------------------------------------------------------------------
(* _track_case_events: the events of one row *)

\* pd.notna(value)
notna(value) == value # NaT

\* for c in cols: if pd.notna(row[c]): events.append((row[c], c, typ))
RECURSIVE ColumnEvents(_, _, _)
ColumnEvents(row, cols, typ) ==
    IF cols = <<>> THEN <<>>
    ELSE (IF notna(row.dates[Head(cols)])
          THEN << << row.dates[Head(cols)], Head(cols), typ >> >>
          ELSE <<>>)
         \o ColumnEvents(row, Tail(cols), typ)

\* the unsorted event list of a row: warehouse columns, then site columns
RowEvents(row, warehouse_cols, site_cols) ==
    ColumnEvents(row, warehouse_cols, "warehouse_in")
        \o ColumnEvents(row, site_cols, "site_out")

\* a mutant of InsertByDate: e is inserted before the elements of the same
\* timestamp, so the sort is not stable
RECURSIVE InsertByDateBeforeEqual(_, _)
InsertByDateBeforeEqual(s, e) ==
    IF s = <<>> THEN << e >>
    ELSE IF LexLE(e[1], Head(s)[1]) THEN << e >> \o s
    ELSE << Head(s) >> \o InsertByDateBeforeEqual(Tail(s), e)

\* e inserted into the sorted list s after every element whose key (the
\* timestamp) is not greater than e's
RECURSIVE InsertByDate(_, _)
InsertByDate(s, e) ==
    IF s = <<>> THEN << e >>
    ELSE IF LexLT(e[1], Head(s)[1]) THEN << e >> \o s
    ELSE << Head(s) >> \o InsertByDate(Tail(s), e)

\* a mutant of SortByDate: the sort is dropped
SortByDateNone(es) == es

\* events.sort(key=lambda x: x[0]): a stable sort by timestamp
RECURSIVE SortByDate(_)
SortByDate(es) ==
    IF es = <<>> THEN <<>>
    ELSE InsertByDate(SortByDate(SubSeq(es, 1, Len(es) - 1)), es[Len(es)])

\* a mutant of WalkEvent: a site delivery does not update prev_loc, prev_type
WalkEventKeepsPrev(st, case, ev) ==
    LET mon == MonthOf(ev[1]) IN
    IF ev[3] = "warehouse_in"
    THEN [ event_map |-> Append(st.event_map,
                [case |-> case, type |-> "ipgo", loc |-> ev[2], month |-> mon]),
           prev_loc |-> ev[2], prev_type |-> "warehouse" ]
    ELSE [ event_map |->
                (IF st.prev_type = "warehouse" /\ st.prev_loc # None /\ st.prev_loc # ""
                 THEN Append(st.event_map,
                        [case |-> case, type |-> "chulgo", loc |-> st.prev_loc,
                         month |-> mon])
                 ELSE st.event_map)
                \o << [case |-> case, type |-> "site_in", loc |-> ev[2],
                       month |-> mon] >>,
           prev_loc |-> st.prev_loc, prev_type |-> st.prev_type ]

\* a mutant of WalkEvent: the outbound event is tagged with the site, not
\* with the warehouse the case leaves
WalkEventOutAtSite(st, case, ev) ==
    LET mon == MonthOf(ev[1]) IN
    IF ev[3] = "warehouse_in"
    THEN [ event_map |-> Append(st.event_map,
                [case |-> case, type |-> "ipgo", loc |-> ev[2], month |-> mon]),
           prev_loc |-> ev[2], prev_type |-> "warehouse" ]
    ELSE [ event_map |->
                (IF st.prev_type = "warehouse" /\ st.prev_loc # None /\ st.prev_loc # ""
                 THEN Append(st.event_map,
                        [case |-> case, type |-> "chulgo", loc |-> ev[2],
                         month |-> mon])
                 ELSE st.event_map)
                \o << [case |-> case, type |-> "site_in", loc |-> ev[2],
                       month |-> mon] >>,
           prev_loc |-> ev[2], prev_type |-> "site" ]

\* a mutant of WalkEvent: the outbound event is appended after the
\* site-inbound event, not before it
WalkEventOutAfterSiteIn(st, case, ev) ==
    LET mon == MonthOf(ev[1]) IN
    IF ev[3] = "warehouse_in"
    THEN [ event_map |-> Append(st.event_map,
                [case |-> case, type |-> "ipgo", loc |-> ev[2], month |-> mon]),
           prev_loc |-> ev[2], prev_type |-> "warehouse" ]
    ELSE [ event_map |->
                Append(st.event_map,
                       [case |-> case, type |-> "site_in", loc |-> ev[2], month |-> mon])
                \o (IF st.prev_type = "warehouse" /\ st.prev_loc # None /\ st.prev_loc # ""
                    THEN << [case |-> case, type |-> "chulgo", loc |-> st.prev_loc,
                             month |-> mon] >>
                    ELSE <<>>),
           prev_loc |-> ev[2], prev_type |-> "site" ]

\* a mutant of WalkEvent: the outbound event is tagged with the month of
\* the arrival at the warehouse (the month of the inbound event before it)
WalkEventOutArrivalMonth(st, case, ev) ==
    LET mon == MonthOf(ev[1]) IN
    IF ev[3] = "warehouse_in"
    THEN [ event_map |-> Append(st.event_map,
                [case |-> case, type |-> "ipgo", loc |-> ev[2], month |-> mon]),
           prev_loc |-> ev[2], prev_type |-> "warehouse" ]
    ELSE [ event_map |->
                (IF st.prev_type = "warehouse" /\ st.prev_loc # None /\ st.prev_loc # ""
                 THEN Append(st.event_map,
                        [case |-> case, type |-> "chulgo", loc |-> st.prev_loc,
                         month |-> st.event_map[Len(st.event_map)].month])
                 ELSE st.event_map)
                \o << [case |-> case, type |-> "site_in", loc |-> ev[2],
                       month |-> mon] >>,
           prev_loc |-> ev[2], prev_type |-> "site" ]

\* one iteration of 'for date, loc, typ in events' on the walk state
\* st = (event_map, prev_loc, prev_type)
WalkEvent(st, case, ev) ==
    LET mon == MonthOf(ev[1]) IN
    IF ev[3] = "warehouse_in"
    THEN [ event_map |-> Append(st.event_map,
                [case |-> case, type |-> "ipgo", loc |-> ev[2], month |-> mon]),
           prev_loc |-> ev[2], prev_type |-> "warehouse" ]
    ELSE IF ev[3] = "site_out"
    THEN [ event_map |->
                (IF st.prev_type = "warehouse" /\ st.prev_loc # None /\ st.prev_loc # ""
                 THEN Append(st.event_map,
                        [case |-> case, type |-> "chulgo", loc |-> st.prev_loc,
                         month |-> mon])
                 ELSE st.event_map)
                \o << [case |-> case, type |-> "site_in", loc |-> ev[2],
                       month |-> mon] >>,
           prev_loc |-> ev[2], prev_type |-> "site" ]
    ELSE st

\* the walk over es from the state st
RECURSIVE WalkEvents(_, _, _)
WalkEvents(st, case, es) ==
    IF es = <<>> THEN st
    ELSE WalkEvents(WalkEvent(st, case, Head(es)), case, Tail(es))

\* last_type.split('_')[0]
SplitType(typ) == IF typ = "warehouse_in" THEN "warehouse" ELSE "site"

\* a mutant of StatusOf: the terminal state is taken from the first event
StatusOfFirstEvent(case, es) ==
    LET first == es[1] IN
    [ case |-> case, loc |-> first[2], type |-> SplitType(first[3]),
      month |-> MonthOf(first[1]) ]

\* the case_status entry of a row whose sorted event list is es (not empty)
StatusOf(case, es) ==
    LET last == es[Len(es)] IN
    [ case |-> case, loc |-> last[2], type |-> SplitType(last[3]),
      month |-> MonthOf(last[1]) ]

\* a mutant of TrackRow: a row without events is not skipped; it gets a
\* terminal state at the first warehouse column, with an empty month
TrackRowNoSkip(acc, row, warehouse_cols, site_cols) ==
    LET es == SortByDate(RowEvents(row, warehouse_cols, site_cols)) IN
    IF es = <<>>
    THEN [ case_status |-> Append(acc.case_status,
                [ case |-> row.case_no,
                  loc |-> IF warehouse_cols = <<>> THEN None ELSE warehouse_cols[1],
                  type |-> "warehouse", month |-> <<>> ]),
           event_map |-> acc.event_map ]
    ELSE [ case_status |-> Append(acc.case_status, StatusOf(row.case_no, es)),
           event_map |-> WalkEvents(
                [event_map |-> acc.event_map, prev_loc |-> None, prev_type |-> None],
                row.case_no, es).event_map ]

\* a mutant of TrackRow: prev_loc, prev_type are not reset for the row; they
\* are still the location and type of the last event of the row before
TrackRowKeepsPrev(acc, row, warehouse_cols, site_cols) ==
    LET es == SortByDate(RowEvents(row, warehouse_cols, site_cols))
        n == Len(acc.case_status)
    IN  IF es = <<>> THEN acc
        ELSE [ case_status |-> Append(acc.case_status, StatusOf(row.case_no, es)),
               event_map |-> WalkEvents(
                    [event_map |-> acc.event_map,
                     prev_loc |-> IF n = 0 THEN None ELSE acc.case_status[n].loc,
                     prev_type |-> IF n = 0 THEN None ELSE acc.case_status[n].type],
                    row.case_no, es).event_map ]

\* one iteration of 'for _, row in df.iterrows()' on (case_status, event_map)
TrackRow(acc, row, warehouse_cols, site_cols) ==
    LET es == SortByDate(RowEvents(row, warehouse_cols, site_cols)) IN
    IF es = <<>> THEN acc
    ELSE [ case_status |-> Append(acc.case_status, StatusOf(row.case_no, es)),
           event_map |-> WalkEvents(
                [event_map |-> acc.event_map, prev_loc |-> None, prev_type |-> None],
                row.case_no, es).event_map ]

\* _track_case_events(df, warehouse_cols, site_cols)
RECURSIVE TrackCaseEventsFrom(_, _, _, _)
TrackCaseEventsFrom(acc, df, warehouse_cols, site_cols) ==
    IF df = <<>> THEN acc
    ELSE TrackCaseEventsFrom(TrackRow(acc, Head(df), warehouse_cols, site_cols),
                             Tail(df), warehouse_cols, site_cols)

track_case_events(df, warehouse_cols, site_cols) ==
    TrackCaseEventsFrom([case_status |-> <<>>, event_map |-> <<>>],
                        df, warehouse_cols, site_cols)

-----------------------------------------------------------------------------
(* The warehouse-to-site flow of a case, as the specification describes it *)

\* the configured set of excluded (transit-only) warehouse names
ExcludedWarehouses == { "WH_A" }

\* the transitions of a case whose raw movement sequence is es: one
\* (origin warehouse, destination site) for every two consecutive events
\* that are a warehouse event and then a site event, in order, the excluded
\* warehouses dropped as origins
RECURSIVE flow_transitions(_)
flow_transitions(es) ==
    IF Len(es) < 2 THEN <<>>
    ELSE (IF /\ es[1][3] = "warehouse_in"
             /\ es[2][3] = "site_out"
             /\ es[1][2] \notin ExcludedWarehouses
          THEN << << es[1][2], es[2][2] >> >>
          ELSE <<>>)
         \o flow_transitions(Tail(es))

-----------------------------------------------------------------------------
(* _process_supplier: the month list and the monthly tables *)

\* sorted(S) for a set S of str
RECURSIVE SortedStrs(_)
SortedStrs(S) ==
    IF S = {} THEN <<>>
    ELSE LET least == CHOOSE x \in S : \A y \in S : LexLE(x, y) IN
         << least >> \o SortedStrs(S \ { least })

\* all_months: the monthly periods of the non-null values of the columns
AllMonths(df, cols) ==
    { to_period_M(df[r].dates[c]) :
        <<r, c>> \in { rc \in (DOMAIN df) \X Range(cols) : notna(df[rc[1]].dates[rc[2]]) } }

\* a mutant of MonthStrs: the target month does not filter
MonthStrsNoCutoff(df, cols, target_month) ==
    SortedStrs({ PeriodStr(m) : m \in AllMonths(df, cols) })

\* month_strs = sorted([str(m) for m in all_months if str(m) <= target_month])
MonthStrs(df, cols, target_month) ==
    SortedStrs({ PeriodStr(m) : m \in { p \in AllMonths(df, cols) :
                                          LexLE(PeriodStr(p), target_month) } })

\* the cell columns of the monthly warehouse table
WarehouseColumns(warehouses) ==
    Range(warehouses) \X { "ipgo", "chulgo", "jaego" }

\* the cell columns of the monthly site table
SiteColumns(sites) ==
    Range(sites) \X { "ipgo", "nujeok_ipgo" }

\* sum(1 for e in event_map if e['type'] == typ and e['loc'] == loc
\*                             and e['month'] == m)
CountEvents(evmap, typ, loc, m) ==
    Cardinality({ n \in DOMAIN evmap :
        evmap[n].type = typ /\ evmap[n].loc = loc /\ evmap[n].month = m })

\* a mutant of CountStatus: only the cases whose last event is in month m
CountStatusSameMonth(status, typ, loc, m) ==
    Cardinality({ n \in DOMAIN status :
        status[n].loc = loc /\ status[n].type = typ /\ status[n].month = m })

\* a mutant of CountStatus: the location is not compared
CountStatusAnyLoc(status, typ, loc, m) ==
    Cardinality({ n \in DOMAIN status :
        status[n].type = typ /\ LexLE(status[n].month, m) })

\* sum(1 for s in case_status if s['loc'] == loc and s['type'] == typ
\*                               and s['month'] <= m)
CountStatus(status, typ, loc, m) ==
    Cardinality({ n \in DOMAIN status :
        status[n].loc = loc /\ status[n].type = typ /\ LexLE(status[n].month, m) })

\* row_data of month m in _aggregate_warehouse_data
WarehouseRow(status, evmap, m, warehouses) ==
    [ month |-> m,
      cells |-> [ col \in WarehouseColumns(warehouses) |->
        IF col[2] = "ipgo" THEN CountEvents(evmap, "ipgo", col[1], m)
        ELSE IF col[2] = "chulgo" THEN CountEvents(evmap, "chulgo", col[1], m)
        ELSE CountStatus(status, "warehouse", col[1], m) ] ]

\* row_data of month m in _aggregate_site_data
SiteRow(status, evmap, m, sites) ==
    [ month |-> m,
      cells |-> [ col \in SiteColumns(sites) |->
        IF col[2] = "ipgo" THEN CountEvents(evmap, "site_in", col[1], m)
        ELSE CountStatus(status, "site", col[1], m) ] ]

\* 'jaego' in col or 'nujeok_ipgo' in col, for a column name f'{loc}_{suffix}'
\* whose location name holds neither word
IsStockColumn(col) == col[2] \in { "jaego", "nujeok_ipgo" }

\* df[col].sum()
ColumnSum(df, col) == SumSeq([ r \in DOMAIN df |-> df[r].cells[col] ])

\* a mutant of add_total_row: every column of the TOTAL row is a sum
add_total_row_all_sums(df) ==
    IF df = <<>> THEN df
    ELSE Append(df, [ month |-> TOTAL,
                      cells |-> [ col \in DOMAIN df[1].cells |-> ColumnSum(df, col) ] ])

\* _add_total_row(df)
add_total_row(df) ==
    IF df = <<>> THEN df
    ELSE Append(df, [ month |-> TOTAL,
                      cells |-> [ col \in DOMAIN df[1].cells |->
                          IF IsStockColumn(col) THEN df[Len(df)].cells[col]
                          ELSE ColumnSum(df, col) ] ])

\* _aggregate_warehouse_data(case_status, event_map, months, warehouses)
aggregate_warehouse_data(status, evmap, months, warehouses) ==
    LET data == [ r \in DOMAIN months |->
                    WarehouseRow(status, evmap, months[r], warehouses) ] IN
    IF data = <<>> THEN <<>> ELSE add_total_row(data)

\* _aggregate_site_data(case_status, event_map, months, sites)
aggregate_site_data(status, evmap, months, sites) ==
    LET data == [ r \in DOMAIN months |->
                    SiteRow(status, evmap, months[r], sites) ] IN
    IF data = <<>> THEN <<>> ELSE add_total_row(data)

\* _process_supplier(df, warehouse_cols): (warehouse_df, site_df)
process_supplier(cfg, df, warehouses) ==
    LET sites == cfg.SITE_COLS
        months == MonthStrs(df, warehouses \o sites, cfg.TARGET_MONTH)
        tracked == track_case_events(df, warehouses, sites)
    IN  IF months = <<>> THEN [ warehouse_df |-> <<>>, site_df |-> <<>> ]
        ELSE [ warehouse_df |-> aggregate_warehouse_data(tracked.case_status,
                                    tracked.event_map, months, warehouses),
               site_df |-> aggregate_site_data(tracked.case_status,
                                    tracked.event_map, months, sites) ]

-----------------------------------------------------------------------------
(* _calculate_stock_from_movements and run_stock_verification *)

\* dict.get(key, default)
Get(d, key, default) == IF key \in DOMAIN d THEN d[key] ELSE default

\* the columns of a table (of its first row; a table without rows has none
\* that matter: it melts to nothing)
Columns(df) == IF df = <<>> THEN {} ELSE DOMAIN df[1].dates

\* df.melt(id_vars=['case_no', 'quantity'], value_vars=value_vars,
\*         var_name='location', value_name='date'): column by column
RECURSIVE Melt(_, _)
Melt(df, value_vars) ==
    IF value_vars = <<>> THEN <<>>
    ELSE [ r \in DOMAIN df |->
             [ case_no |-> df[r].case_no, quantity |-> df[r].quantity,
               location |-> Head(value_vars), date |-> df[r].dates[Head(value_vars)] ] ]
         \o Melt(df, Tail(value_vars))

\* .dropna(subset=['date'])
DropNaDate(melted) == SelectSeqBy(melted, { e \in Range(melted) : notna(e.date) })

\* a mutant of LastStatus: among the rows of the latest date of a case the
\* first in melted order is kept
LastStatusFirstOfTies(melted) ==
    { melted[n] : n \in { a \in DOMAIN melted :
        \A b \in DOMAIN melted :
            melted[b].case_no = melted[a].case_no =>
                \/ LexLT(melted[b].date, melted[a].date)
                \/ melted[b].date = melted[a].date /\ b >= a } }

\* melted.sort_values(by=['case_no', 'date']) (stable) followed by
\* drop_duplicates(subset=['case_no'], keep='last'): per case, the row with
\* the latest date, and among those the last in melted order
LastStatus(melted) ==
    { melted[n] : n \in { a \in DOMAIN melted :
        \A b \in DOMAIN melted :
            melted[b].case_no = melted[a].case_no =>
                \/ LexLT(melted[b].date, melted[a].date)
                \/ melted[b].date = melted[a].date /\ b <= a } }

\* a mutant of InWarehouse: the warehouse filter is dropped
InWarehouseAll(last_status, warehouse_cols) == last_status

\* last_status[last_status['location'].isin(warehouse_cols)]
InWarehouse(last_status, warehouse_cols) ==
    { e \in last_status : e.location \in Range(warehouse_cols) }

\* the body of 'for supplier, df in self.movement_data.items()': the rows a
\* supplier appends to all_statuses; skip when the loop continues
SupplierStatuses(cfg, sup, df) ==
    LET warehouse_cols == Get(cfg.WAREHOUSE_COLS_MAP, sup, <<>>)
        all_locs == warehouse_cols \o cfg.SITE_COLS
        value_vars == SelectSeqBy(all_locs, Columns(df))
        melted == DropNaDate(Melt(df, value_vars))
    IN  IF value_vars = <<>> THEN [ skip |-> TRUE, rows |-> {} ]
        ELSE IF melted = <<>> THEN [ skip |-> TRUE, rows |-> {} ]
        ELSE [ skip |-> FALSE,
               rows |-> InWarehouse(LastStatus(melted), warehouse_cols) ]

\* sum of e.quantity over a finite set of melted rows
RECURSIVE SumQuantity(_)
SumQuantity(S) ==
    IF S = {} THEN 0
    ELSE LET e == CHOOSE x \in S : TRUE IN e.quantity + SumQuantity(S \ { e })

\* _calculate_stock_from_movements(): case_no -> CalculatedStock
calculate_stock_from_movements(cfg, mdata) ==
    LET appended == { sup \in DOMAIN mdata : ~SupplierStatuses(cfg, sup, mdata[sup]).skip }
        \* pd.concat(all_statuses): the rows, tagged by the table they come from
        concat == UNION { { [ sup |-> sup, row |-> e ] :
                              e \in SupplierStatuses(cfg, sup, mdata[sup]).rows } :
                          sup \in appended }
        cases == { x.row.case_no : x \in concat }
    IN  [ c \in cases |-> SumQuantity({ [ sup |-> x.sup, quantity |-> x.row.quantity ] :
                                          x \in { y \in concat : y.row.case_no = c } }) ]

\* pd.merge(calculated_stock, actual_stock, on='case_no', how='outer')
\* .fillna(0), with the Discrepancy column: the keys in ascending order, one
\* row per on-hand row of the key, or one row for a key only in
\* calculated_stock; a value missing on one side is NaN, filled with 0
RECURSIVE VerificationRows(_, _, _)
VerificationRows(ids, calc, actual) ==
    IF ids = <<>> THEN <<>>
    ELSE LET c == Head(ids)
             mine == SelectSeqBy(actual, { a \in Range(actual) : a.case_no = c })
             calc_c == IF c \in DOMAIN calc THEN calc[c] ELSE 0
         IN  (IF mine = <<>>
              THEN IF c \in DOMAIN calc
                   THEN << [ case_no |-> c, CalculatedStock |-> calc_c, ActualQty |-> 0,
                             Discrepancy |-> 0 - calc_c ] >>
                   ELSE <<>>
              ELSE [ r \in DOMAIN mine |->
                       [ case_no |-> c, CalculatedStock |-> calc_c,
                         ActualQty |-> mine[r].quantity,
                         Discrepancy |-> mine[r].quantity - calc_c ] ])
             \o VerificationRows(Tail(ids), calc, actual)

\* a mutant of NonZero: the filter is dropped
NonZeroKeepsAll(verification_df) == verification_df

\* verification_df[verification_df['Discrepancy'] != 0]
NonZero(verification_df) ==
    SelectSeqBy(verification_df, { v \in Range(verification_df) : v.Discrepancy # 0 })

\* a mutant of run_stock_verification: an empty calculated stock does not
\* end the verification
run_stock_verification_merges_empty(cfg, mdata, onhand, ids) ==
    IF onhand = <<>> THEN [ calculated |-> <<>>, result |-> <<>> ]
    ELSE LET calc == calculate_stock_from_movements(cfg, mdata) IN
         [ calculated |-> calc,
           result |-> NonZero(VerificationRows(ids, calc, onhand)) ]

\* run_stock_verification(): (calculated_stock, returned table); the
\* calculated stock is not computed when the on-hand table is empty
run_stock_verification(cfg, mdata, onhand, ids) ==
    IF onhand = <<>> THEN [ calculated |-> <<>>, result |-> <<>> ]
    ELSE LET calc == calculate_stock_from_movements(cfg, mdata) IN
         IF DOMAIN calc = {} THEN [ calculated |-> calc, result |-> <<>> ]
         ELSE [ calculated |-> calc,
                result |-> NonZero(VerificationRows(ids, calc, onhand)) ]

-----------------------------------------------------------------------------
(* _process_supplier_file and run_monthly_warehouse_analysis *)

\* the characters of the sample supplier and location names
Spelling(name) ==
    CASE name = "WH_A" -> << 87, 72, 95, 65 >>
      [] name = "WH_B" -> << 87, 72, 95, 66 >>
      [] name = "SITE_X" -> << 83, 73, 84, 69, 95, 88 >>
      [] name = "SITE_Y" -> << 83, 73, 84, 69, 95, 89 >>
      [] name = "SUP_A" -> << 83, 85, 80, 95, 65 >>
      [] name = "SUP_B" -> << 83, 85, 80, 95, 66 >>

\* sub in text, for two str
Contains(sub, text) ==
    \E o \in 0..(Len(text) - Len(sub)) : SubSeq(text, o + 1, o + Len(sub)) = sub

\* a mutant of FileLocationCols: the columns are matched against the
\* configured warehouse columns of the suppliers, not against their keys
FileLocationColsByWarehouse(cfg, df) ==
    { col \in Columns(df) :
        \E w \in UNION { Range(cfg.WAREHOUSE_COLS_MAP[sup]) :
                            sup \in DOMAIN cfg.WAREHOUSE_COLS_MAP }
                    \cup Range(cfg.SITE_COLS) :
            Contains(Spelling(w), Spelling(col)) }

\* location_cols = [col for col in df.columns if any(w in str(col) for w in
\*     list(self.config['WAREHOUSE_COLS_MAP'].keys()) + self.config['SITE_COLS'])]
\* (of the location columns of the table; the name of no other column of a
\* normalized table holds a supplier key or a site name)
FileLocationCols(cfg, df) ==
    { col \in Columns(df) :
        \E w \in (DOMAIN cfg.WAREHOUSE_COLS_MAP) \cup Range(cfg.SITE_COLS) :
            Contains(Spelling(w), Spelling(col)) }

\* _is_in_event(location_name)
is_in_event(cfg, location_name) ==
    ~ \E site \in Range(cfg.SITE_COLS) :
          Contains(Spelling(site), Spelling(location_name))

\* _process_supplier_file(df, supplier): the monthly rows of the supplier,
\* with the columns f'{loc}_In', f'{loc}_Out', f'{loc}_Stock' as the pairs
\* <<loc, "In">>, <<loc, "Out">>, <<loc, "Stock">>
process_supplier_file(cfg, df, sup) ==
    LET location_cols == FileLocationCols(cfg, df)
        \* df.melt(...) with the rows without a date dropped: (row, location)
        melted == { e \in (DOMAIN df) \X location_cols : notna(df[e[1]].dates[e[2]]) }
        month(e) == to_period_M(df[e[1]].dates[e[2]])
        in_qty(e) == IF is_in_event(cfg, e[2]) THEN df[e[1]].quantity ELSE 0
        out_qty(e) == IF ~is_in_event(cfg, e[2]) THEN df[e[1]].quantity ELSE 0
        months == SortedStrs({ month(e) : e \in melted })
        locs == { e[2] : e \in melted }
        \* a cell of the pivot table: the sum over the events of the month
        \* at the location
        pivot_in(m, loc) ==
            SumQuantity({ [ e |-> e, quantity |-> in_qty(e) ] :
                            e \in { x \in melted : month(x) = m /\ x[2] = loc } })
        pivot_out(m, loc) ==
            SumQuantity({ [ e |-> e, quantity |-> out_qty(e) ] :
                            e \in { x \in melted : month(x) = m /\ x[2] = loc } })
        \* (in_series - out_series).cumsum()
        stock(r, loc) ==
            SumSeq([ q \in 1..r |-> pivot_in(months[q], loc) - pivot_out(months[q], loc) ])
    IN  IF df = <<>> \/ location_cols = {} \/ melted = {} THEN <<>>
        ELSE [ r \in DOMAIN months |->
                 [ Month |-> months[r], Supplier |-> sup,
                   cells |-> [ col \in locs \X { "In", "Out", "Stock" } |->
                       IF col[2] = "In" THEN pivot_in(months[r], col[1])
                       ELSE IF col[2] = "Out" THEN pivot_out(months[r], col[1])
                       ELSE stock(r, col[1]) ] ] ]

\* a row inserted into rows sorted by (Month, Supplier), after the rows
\* whose key is not greater
RECURSIVE InsertByMonthSupplier(_, _)
InsertByMonthSupplier(rows, row) ==
    IF rows = <<>> THEN << row >>
    ELSE IF LexLT(row.Month \o Spelling(row.Supplier),
                  Head(rows).Month \o Spelling(Head(rows).Supplier))
         THEN << row >> \o rows
         ELSE << Head(rows) >> \o InsertByMonthSupplier(Tail(rows), row)

\* consolidated_monthly.sort_values(['Month', 'Supplier'])
RECURSIVE SortByMonthSupplier(_)
SortByMonthSupplier(rows) ==
    IF rows = <<>> THEN <<>>
    ELSE InsertByMonthSupplier(SortByMonthSupplier(SubSeq(rows, 1, Len(rows) - 1)),
                               rows[Len(rows)])

\* pd.concat(all_monthly_data) over the suppliers of movement_data in the
\* order of the dict; a supplier without rows or without monthly rows adds
\* nothing
RECURSIVE ConcatMonthly(_, _, _)
ConcatMonthly(cfg, mdata, sups) ==
    IF sups = <<>> THEN <<>>
    ELSE (IF Head(sups) \in DOMAIN mdata
          THEN process_supplier_file(cfg, mdata[Head(sups)], Head(sups))
          ELSE <<>>)
         \o ConcatMonthly(cfg, mdata, Tail(sups))

\* run_monthly_warehouse_analysis(): the rows of the consolidated table; a
\* column a row does not have is NaN in that row
run_monthly_warehouse_analysis(cfg, mdata, sups) ==
    SortByMonthSupplier(ConcatMonthly(cfg, mdata, sups))

-----------------------------------------------------------------------------
(* DataNormalizer.normalize *)

\* a missing cell of a table read from a file
NaN == "NaN"

\* the cells of a quantity column: missing, a str that is not a number, a
\* number
QuantityCell(kind, value) == [ kind |-> kind, value |-> value ]

\* _find_column(df.columns, standard_name) on the sample column names
\* 'Case No.', 'QTY' and 'Unit', each of which matches the patterns of its
\* standard name and of no other; None when no column matches
find_column(columns, standard_name) ==
    LET col == CASE standard_name = "case_no" -> "Case No."
                 [] standard_name = "quantity" -> "QTY"
                 [] standard_name = "unit" -> "Unit"
    IN  IF col \in columns THEN col ELSE None

\* astype(str) of a case number cell
astype_str(v) == IF v = NaN THEN "nan" ELSE v

\* str.upper() of a unit cell
str_upper(v) ==
    CASE v = "ea" -> "EA"
      [] v = "kg" -> "KG"
      [] OTHER -> v

\* pd.to_numeric(cell, errors='coerce'), NaN filled with 0
to_numeric_fillna0(cell) == IF cell.kind = "num" THEN cell.value ELSE 0

\* _normalize_quantity(df, standard_df): the quantity of a row
normalize_quantity(df, row) ==
    IF find_column(df.columns, "quantity") = None THEN 1
    ELSE IF /\ find_column(df.columns, "unit") # None
            /\ str_upper(row.unit) = "EA"
            /\ row.quantity.kind = "nan"
         THEN 1
         ELSE to_numeric_fillna0(row.quantity)

\* standard_df['unit'].str raises AttributeError: the quantity and unit
\* columns are found and the unit column holds no str (a column of missing
\* cells only is read as a column of floats)
UnitStrRaises(df) ==
    /\ find_column(df.columns, "quantity") # None
    /\ find_column(df.columns, "unit") # None
    /\ \A r \in DOMAIN df.rows : df.rows[r].unit = NaN

\* normalize(df, source_name): None, an exception, or the table of the
\* case number, quantity and location columns
normalize(df, source_name) ==
    IF df.rows = <<>> THEN [ kind |-> "None", table |-> <<>> ]
    ELSE IF find_column(df.columns, "case_no") = None
    THEN [ kind |-> "None", table |-> <<>> ]
    ELSE IF UnitStrRaises(df) THEN [ kind |-> "raise", table |-> <<>> ]
    ELSE [ kind |-> "ok",
           table |-> [ r \in DOMAIN df.rows |->
               [ case_no |-> astype_str(df.rows[r].case_no),
                 quantity |-> normalize_quantity(df, df.rows[r]),
                 dates |-> df.rows[r].dates ] ] ]

-----------------------------------------------------------------------------
(* WarehouseAnalyzer._load_movement_data and run_supplier_case_analysis *)

\* a mutant of load_movement_file: normalize is called outside the try, so
\* its exception leaves the loop
load_movement_file_normalize_unguarded(file, file_key) ==
    IF ~file.exists THEN [ kind |-> "continue", table |-> <<>> ]
    ELSE IF ~file.readable THEN [ kind |-> "continue", table |-> <<>> ]
    ELSE LET normalized_df == normalize(file.df, file_key) IN
         IF normalized_df.kind = "raise" THEN [ kind |-> "raise", table |-> <<>> ]
         ELSE IF normalized_df.kind = "ok"
         THEN [ kind |-> "store", table |-> normalized_df.table ]
         ELSE [ kind |-> "continue", table |-> <<>> ]

\* the body of the loop of _load_movement_data for one movement file: the
\* file does not exist -> continue; an exception of read_excel or normalize
\* is caught and printed; the table is stored unless normalize returns None
load_movement_file(file, file_key) ==
    IF ~file.exists THEN [ kind |-> "continue", table |-> <<>> ]
    ELSE IF ~file.readable THEN [ kind |-> "continue", table |-> <<>> ]
    ELSE LET normalized_df == normalize(file.df, file_key) IN
         IF normalized_df.kind = "ok"
         THEN [ kind |-> "store", table |-> normalized_df.table ]
         ELSE [ kind |-> "continue", table |-> <<>> ]

\* run_supplier_case_analysis(): all_reports, keyed by supplier and sheet
\* ("changgo" the warehouse sheet, "hyeonjang" the site sheet)
run_supplier_case_analysis(cfg, mdata) ==
    LET reports == [ sup \in { x \in DOMAIN mdata : mdata[x] # <<>> } |->
                       process_supplier(cfg, mdata[sup],
                           Get(cfg.WAREHOUSE_COLS_MAP, sup, <<>>)) ]
        keys == { <<sup, "changgo">> :
                    sup \in { x \in DOMAIN reports : reports[x].warehouse_df # <<>> } }
                \cup
                { <<sup, "hyeonjang">> :
                    sup \in { x \in DOMAIN reports : reports[x].site_df # <<>> } }
    IN  [ key \in keys |->
            IF key[2] = "changgo" THEN reports[key[1]].warehouse_df
            ELSE reports[key[1]].site_df ]

-----------------------------------------------------------------------------
(* Configurations and input tables *)

\* the configuration of the monthly analysis: one supplier
MonthlyConfig ==
    [ WAREHOUSE_COLS_MAP |-> [ s \in { "SUP_A" } |-> << "WH_A", "WH_B" >> ],
      SITE_COLS |-> << "SITE_X" >>,
      TARGET_MONTH |-> TARGET_MONTH ]

\* the configuration of the single-case walk: two warehouses, two sites
CaseConfig ==
    [ WAREHOUSE_COLS_MAP |-> [ s \in { "SUP_A" } |-> << "WH_A", "WH_B" >> ],
      SITE_COLS |-> << "SITE_X", "SITE_Y" >>,
      TARGET_MONTH |-> TARGET_MONTH ]

\* the configuration of the reconciliation: two suppliers
VerifyConfig ==
    [ WAREHOUSE_COLS_MAP |-> [ s \in { "SUP_A", "SUP_B" } |-> << "WH_A" >> ],
      SITE_COLS |-> << "SITE_X" >>,
      TARGET_MONTH |-> TARGET_MONTH ]

\* the location columns of a supplier's table
LocationCols(cfg, sup) ==
    Range(Get(cfg.WAREHOUSE_COLS_MAP, sup, <<>>)) \cup Range(cfg.SITE_COLS)

\* the tables of n rows with distinct case ids CaseIds[1..n], quantity 1
TablesOf(n, locs, stamps) ==
    { [ r \in 1..n |-> [ case_no |-> CaseIds[r], quantity |-> 1, dates |-> d[r] ] ] :
        d \in [ 1..n -> [ locs -> stamps \cup { NaT } ] ] }

\* the number of timestamps in a table
RECURSIVE CountDated(_)
CountDated(df) ==
    IF df = <<>> THEN 0
    ELSE Cardinality({ col \in DOMAIN Head(df).dates : Head(df).dates[col] # NaT })
           + CountDated(Tail(df))

\* the rows of the reconciliation input: rows of case C1, of quantity 1, and
\* rows of case C2, of quantity 2
VerifyRows ==
    { [ case_no |-> CaseIds[c], quantity |-> c, dates |-> d ] :
        c \in { 1, 2 },
        d \in [ LocationCols(VerifyConfig, "SUP_A") ->
                  { NaT, <<2025, 1, 15>>, <<2025, 2, 10>> } ] }

\* the rows of the on-hand table
OnhandRows ==
    { [ case_no |-> c, quantity |-> q ] :
        c \in { CaseIds[1], CaseIds[2] }, q \in { 0, 1, 2 } }

\* the rows of a table read from a file with the columns cols: a column
\* the table does not have holds missing cells
RawRows(cols) ==
    { [ case_no |-> c, quantity |-> q, unit |-> u,
        dates |-> [ col \in LocationCols(VerifyConfig, "SUP_A") |->
                      IF col = "WH_A" THEN <<2025, 1, 15>> ELSE NaT ] ] :
        c \in IF "Case No." \in cols THEN { NaN, "C1", "C2" } ELSE { NaN },
        q \in IF "QTY" \in cols
               THEN { QuantityCell("nan", 0), QuantityCell("str", 0),
                      QuantityCell("num", 0), QuantityCell("num", 2) }
               ELSE { QuantityCell("nan", 0) },
        u \in IF "Unit" \in cols THEN { NaN, "EA", "ea", "KG" } ELSE { NaN } }

\* the tables of n rows read from a file: any of the columns 'Case No.',
\* 'QTY', 'Unit', and the location columns
RawTablesOf(n) ==
    UNION { { [ columns |-> cols, rows |-> rows ] : rows \in [ 1..n -> RawRows(cols) ] } :
            cols \in SUBSET { "Case No.", "QTY", "Unit" } }

-----------------------------------------------------------------------------
(* The run *)

\* the table of the supplier being processed
Df == movement_data[supplier]

warehouse_cols == Get(config.WAREHOUSE_COLS_MAP, supplier, <<>>)

site_cols == config.SITE_COLS

\* the state after construction, but for the input data
InitRun ==
    /\ supplier = "SUP_A"
    /\ i = 1
    /\ events = <<>>
    /\ k = 0
    /\ prev_loc = None
    /\ prev_type = None
    /\ case_status = <<>>
    /\ event_map = <<>>
    /\ month_strs = <<>>
    /\ warehouse_df = <<>>
    /\ site_df = <<>>
    /\ calculated_stock = <<>>
    /\ discrepancies = <<>>
    /\ consolidated_monthly = <<>>
    /\ normalized = [ kind |-> "None", table |-> <<>> ]
    /\ all_reports = <<>>

\* monthly analysis of one supplier's table of up to MaxRows rows and up to
\* MaxEvents timestamps
Init ==
    /\ config = MonthlyConfig
    /\ \E n \in 0..MaxRows :
         \E df \in TablesOf(n, LocationCols(MonthlyConfig, "SUP_A"), Timestamps) :
            /\ CountDated(df) <= MaxEvents
            /\ movement_data = [ s \in { "SUP_A" } |-> df ]
    /\ onhand_data = <<>>
    /\ files = <<>>
    /\ pc = "start"
    /\ InitRun

\* run_supplier_case_analysis up to the month list of _process_supplier: an
\* empty table is skipped, an empty month list returns two empty tables
ProcessSupplierMonths ==
    /\ pc = "start"
    /\ LET months == MonthStrs(Df, warehouse_cols \o site_cols, config.TARGET_MONTH) IN
       IF Df = <<>> \/ months = <<>>
       THEN /\ pc' = "calc"
            /\ UNCHANGED month_strs
       ELSE /\ pc' = "track"
            /\ month_strs' = months
    /\ UNCHANGED <<config, movement_data, onhand_data, supplier, i, events, k,
                   prev_loc, prev_type, case_status, event_map, warehouse_df,
                   site_df, calculated_stock, discrepancies, consolidated_monthly, files, normalized,
                   all_reports>>

\* case_status, event_map = self._track_case_events(df, warehouse_cols, site_cols)
TrackCaseEvents ==
    /\ pc = "track"
    /\ LET tracked == track_case_events(Df, warehouse_cols, site_cols) IN
       /\ case_status' = tracked.case_status
       /\ event_map' = tracked.event_map
    /\ pc' = "aggregate_warehouse"
    /\ UNCHANGED <<config, movement_data, onhand_data, supplier, i, events, k,
                   prev_loc, prev_type, month_strs, warehouse_df, site_df,
                   calculated_stock, discrepancies, consolidated_monthly, files, normalized,
                   all_reports>>

\* warehouse_df = self._aggregate_warehouse_data(...)
AggregateWarehouseData ==
    /\ pc = "aggregate_warehouse"
    /\ warehouse_df' =
         aggregate_warehouse_data(case_status, event_map, month_strs, warehouse_cols)
    /\ pc' = "aggregate_site"
    /\ UNCHANGED <<config, movement_data, onhand_data, supplier, i, events, k,
                   prev_loc, prev_type, case_status, event_map, month_strs,
                   site_df, calculated_stock, discrepancies, consolidated_monthly, files, normalized,
                   all_reports>>

\* site_df = self._aggregate_site_data(...)
AggregateSiteData ==
    /\ pc = "aggregate_site"
    /\ site_df' = aggregate_site_data(case_status, event_map, month_strs, site_cols)
    /\ pc' = "calc"
    /\ UNCHANGED <<config, movement_data, onhand_data, supplier, i, events, k,
                   prev_loc, prev_type, case_status, event_map, month_strs,
                   warehouse_df, calculated_stock, discrepancies, consolidated_monthly, files, normalized,
                   all_reports>>

\* a call of _calculate_stock_from_movements()
CalculateStockFromMovements ==
    /\ pc = "calc"
    /\ calculated_stock' = calculate_stock_from_movements(config, movement_data)
    /\ pc' = "done"
    /\ UNCHANGED <<config, movement_data, onhand_data, supplier, i, events, k,
                   prev_loc, prev_type, case_status, event_map, month_strs,
                   warehouse_df, site_df, discrepancies, consolidated_monthly, files, normalized,
                   all_reports>>

Next ==
    \/ ProcessSupplierMonths
    \/ TrackCaseEvents
    \/ AggregateWarehouseData
    \/ AggregateSiteData
    \/ CalculateStockFromMovements

Spec == Init /\ [][Next]_vars

\* warehouse_df, site_df = self._process_supplier(df, warehouse_cols), as
\* one step
ProcessSupplier ==
    /\ pc = "start"
    /\ LET tracked == track_case_events(Df, warehouse_cols, site_cols)
           months == MonthStrs(Df, warehouse_cols \o site_cols, config.TARGET_MONTH)
           tables == process_supplier(config, Df, warehouse_cols)
       IN  /\ month_strs' = months
           /\ case_status' = IF months = <<>> THEN case_status ELSE tracked.case_status
           /\ event_map' = IF months = <<>> THEN event_map ELSE tracked.event_map
           /\ warehouse_df' = tables.warehouse_df
           /\ site_df' = tables.site_df
    /\ pc' = "processed"
    /\ UNCHANGED <<config, movement_data, onhand_data, supplier, i, events, k,
                   prev_loc, prev_type, calculated_stock, discrepancies,
                   consolidated_monthly, files, normalized, all_reports>>

NextOrder == ProcessSupplier

SpecOrder == Init /\ [][NextOrder]_vars

-----------------------------------------------------------------------------
(* The monthly report of a supplier with one warehouse and two sites *)

\* a target month before every timestamp of Timestamps but the first
EarlyTargetMonth == << 50, 48, 50, 53, 45, 48, 49 >>

\* the configuration: one warehouse, two sites, the given TARGET_MONTH
SiteConfig(target) ==
    [ WAREHOUSE_COLS_MAP |-> [ s \in { "SUP_A" } |-> << "WH_A" >> ],
      SITE_COLS |-> << "SITE_X", "SITE_Y" >>,
      TARGET_MONTH |-> target ]

InitSite ==
    /\ \E n \in 0..MaxRows :
         \E df \in TablesOf(n, LocationCols(SiteConfig(TARGET_MONTH), "SUP_A"), Timestamps) :
            /\ CountDated(df) <= MaxEvents
            /\ movement_data = [ s \in { "SUP_A" } |-> df ]
            /\ \E target \in { TARGET_MONTH, EarlyTargetMonth } :
                 config = SiteConfig(target)
    /\ onhand_data = <<>>
    /\ files = <<>>
    /\ pc = "start"
    /\ InitRun

NextSite == ProcessSupplier

SpecSite == InitSite /\ [][NextSite]_vars

-----------------------------------------------------------------------------
(* The monthly report of a supplier followed by the stock calculation *)

\* a call of _calculate_stock_from_movements() after the monthly report
CalculateStockAfterReport ==
    /\ pc = "processed"
    /\ calculated_stock' = calculate_stock_from_movements(config, movement_data)
    /\ pc' = "done"
    /\ UNCHANGED <<config, movement_data, onhand_data, supplier, i, events, k,
                   prev_loc, prev_type, case_status, event_map, month_strs,
                   warehouse_df, site_df, discrepancies, consolidated_monthly,
                   files, normalized, all_reports>>

NextReport ==
    \/ ProcessSupplier
    \/ CalculateStockAfterReport

SpecReport == Init /\ [][NextReport]_vars

-----------------------------------------------------------------------------
(* The calculated stock of one supplier's table *)

\* the rows of the table: rows of the cases C1 and C2, of quantity 1 or 2
StockRows ==
    { [ case_no |-> c, quantity |-> q, dates |-> d ] :
        c \in { CaseIds[1], CaseIds[2] },
        q \in { 1, 2 },
        d \in [ LocationCols(VerifyConfig, "SUP_A") ->
                  { NaT, <<2025, 1, 15>>, <<2025, 2, 10>> } ] }

\* one supplier's table of up to MaxRows rows
InitStock ==
    /\ config = VerifyConfig
    /\ \E n \in 0..MaxRows :
         movement_data \in { [ s \in { "SUP_A" } |-> df ] : df \in [ 1..n -> StockRows ] }
    /\ onhand_data = <<>>
    /\ files = <<>>
    /\ pc = "calc"
    /\ InitRun

NextStock == CalculateStockFromMovements

SpecStock == InitStock /\ [][NextStock]_vars

-----------------------------------------------------------------------------
(* The walk of _track_case_events over one row, event by event *)

InitCase ==
    /\ config = CaseConfig
    /\ movement_data \in
         { [ s \in { "SUP_A" } |-> df ] :
             df \in TablesOf(1, LocationCols(CaseConfig, "SUP_A"), CaseTimestamps) }
    /\ onhand_data = <<>>
    /\ files = <<>>
    /\ pc = "case_begin"
    /\ InitRun

\* the row index after row i, and where the loop goes
NextRow ==
    /\ i' = i + 1
    /\ pc' = IF i + 1 > Len(Df) THEN "case_done" ELSE "case_begin"

\* lines 77-87: the row's events are collected and sorted; a row without
\* events is skipped
BeginCase ==
    /\ pc = "case_begin"
    /\ i <= Len(Df)
    /\ LET es == SortByDate(RowEvents(Df[i], warehouse_cols, site_cols)) IN
       /\ events' = es
       /\ IF es = <<>>
          THEN NextRow
          ELSE /\ pc' = "walk"
               /\ i' = i
    /\ k' = 0
    /\ prev_loc' = None
    /\ prev_type' = None
    /\ UNCHANGED <<config, movement_data, onhand_data, supplier, case_status,
                   event_map, month_strs, warehouse_df, site_df,
                   calculated_stock, discrepancies, consolidated_monthly, files, normalized,
                   all_reports>>

\* lines 88-97: one iteration of the loop over the row's events
WalkStep ==
    /\ pc = "walk"
    /\ k < Len(events)
    /\ LET st == WalkEvent([ event_map |-> event_map, prev_loc |-> prev_loc,
                             prev_type |-> prev_type ],
                           Df[i].case_no, events[k + 1]) IN
       /\ event_map' = st.event_map
       /\ prev_loc' = st.prev_loc
       /\ prev_type' = st.prev_type
    /\ k' = k + 1
    /\ UNCHANGED <<config, movement_data, onhand_data, supplier, pc, i, events,
                   case_status, month_strs, warehouse_df, site_df,
                   calculated_stock, discrepancies, consolidated_monthly, files, normalized,
                   all_reports>>

\* lines 99-100: the row's terminal state is appended
FinishCase ==
    /\ pc = "walk"
    /\ k = Len(events)
    /\ case_status' = Append(case_status, StatusOf(Df[i].case_no, events))
    /\ NextRow
    /\ UNCHANGED <<config, movement_data, onhand_data, supplier, events, k,
                   prev_loc, prev_type, event_map, month_strs, warehouse_df,
                   site_df, calculated_stock, discrepancies, consolidated_monthly, files, normalized,
                   all_reports>>

NextCase ==
    \/ BeginCase
    \/ WalkStep
    \/ FinishCase

SpecCase == InitCase /\ [][NextCase]_vars

-----------------------------------------------------------------------------
(* Reconciliation of two suppliers' tables against the on-hand table *)

\* no supplier table at all, or two suppliers' tables of up to MaxRows rows
\* together; an on-hand table of up to MaxRows rows, up to MaxRows + 1 rows
\* in all
InitVerify ==
    /\ config = VerifyConfig
    /\ \E na \in 0..MaxRows, nb \in 0..MaxRows, nh \in 0..MaxRows :
        /\ na + nb <= MaxRows
        /\ na + nb + nh <= MaxRows + 1
        /\ \/ movement_data \in
                { [ s \in { "SUP_A", "SUP_B" } |-> IF s = "SUP_A" THEN a ELSE b ] :
                    a \in [ 1..na -> VerifyRows ], b \in [ 1..nb -> VerifyRows ] }
           \/ /\ na + nb = 0
              /\ movement_data = [ s \in {} |-> <<>> ]
        /\ onhand_data \in [ 1..nh -> OnhandRows ]
    /\ files = <<>>
    /\ pc = "verify"
    /\ InitRun

\* run_stock_verification()
RunStockVerification ==
    /\ pc = "verify"
    /\ LET out == run_stock_verification(config, movement_data, onhand_data, CaseIds) IN
       /\ calculated_stock' = out.calculated
       /\ discrepancies' = out.result
    /\ pc' = "done"
    /\ UNCHANGED <<config, movement_data, onhand_data, supplier, i, events, k,
                   prev_loc, prev_type, case_status, event_map, month_strs,
                   warehouse_df, site_df, consolidated_monthly, files, normalized,
                   all_reports>>

\* the suppliers of movement_data, in the order of the dict
SupplierOrder == << "SUP_A", "SUP_B" >>

\* run_monthly_warehouse_analysis()
RunMonthlyWarehouseAnalysis ==
    /\ pc = "verify"
    /\ consolidated_monthly' =
         run_monthly_warehouse_analysis(config, movement_data, SupplierOrder)
    /\ pc' = "monthly_done"
    /\ UNCHANGED <<config, movement_data, onhand_data, supplier, i, events, k,
                   prev_loc, prev_type, case_status, event_map, month_strs,
                   warehouse_df, site_df, calculated_stock, discrepancies,
                   files, normalized, all_reports>>

NextVerify ==
    \/ RunStockVerification
    \/ RunMonthlyWarehouseAnalysis

SpecVerify == InitVerify /\ [][NextVerify]_vars

-----------------------------------------------------------------------------
(* Normalization of one table read from a file *)

\* the table normalize is given
raw_df == files["SUP_A"].df

InitNormalize ==
    /\ config = VerifyConfig
    /\ movement_data = [ s \in {} |-> <<>> ]
    /\ onhand_data = <<>>
    /\ \E n \in 0..MaxRows : \E df \in RawTablesOf(n) :
         files = [ s \in { "SUP_A" } |-> [ exists |-> TRUE, readable |-> TRUE, df |-> df ] ]
    /\ pc = "normalize"
    /\ InitRun

\* normalized_df = self.normalizer.normalize(df, file_key)
Normalize ==
    /\ pc = "normalize"
    /\ normalized' = normalize(raw_df, "SUP_A")
    /\ pc' = "normalized"
    /\ UNCHANGED <<config, movement_data, onhand_data, supplier, i, events, k,
                   prev_loc, prev_type, case_status, event_map, month_strs,
                   warehouse_df, site_df, calculated_stock, discrepancies,
                   consolidated_monthly, files, all_reports>>

NextNormalize == Normalize

SpecNormalize == InitNormalize /\ [][NextNormalize]_vars

-----------------------------------------------------------------------------
(* Loading the movement files and the case analysis of what was loaded *)

\* the keys of FILE_CONFIG, in order
FileKeys == << "STOCK_ONHAND", "SUP_A", "SUP_B" >>

\* what a movement file can be: not there, there and unreadable, or there
\* with a table of at most one row
FileStates ==
    { [ exists |-> e, readable |-> FALSE, df |-> [ columns |-> {}, rows |-> <<>> ] ] :
        e \in BOOLEAN }
    \cup { [ exists |-> TRUE, readable |-> TRUE, df |-> df ] :
             df \in RawTablesOf(0) \cup RawTablesOf(1) }

InitLoad ==
    /\ config = VerifyConfig
    /\ movement_data = [ s \in {} |-> <<>> ]
    /\ onhand_data = <<>>
    /\ files \in [ { "SUP_A", "SUP_B" } -> FileStates ]
    /\ pc = "load"
    /\ InitRun

\* one iteration of the loop of _load_movement_data
LoadMovementFile ==
    /\ pc = "load"
    /\ i \in DOMAIN FileKeys
    /\ LET file_key == FileKeys[i]
           loaded == IF file_key = "STOCK_ONHAND"
                     THEN [ kind |-> "continue", table |-> <<>> ]
                     ELSE load_movement_file(files[file_key], file_key)
       IN  /\ movement_data' =
                IF loaded.kind = "store"
                THEN [ s \in DOMAIN movement_data \cup { file_key } |->
                         IF s = file_key THEN loaded.table ELSE movement_data[s] ]
                ELSE movement_data
           /\ pc' = IF loaded.kind = "raise" THEN "aborted"
                    ELSE IF i = Len(FileKeys) THEN "loaded"
                    ELSE "load"
    /\ i' = i + 1
    /\ UNCHANGED <<config, onhand_data, supplier, events, k,
                   prev_loc, prev_type, case_status, event_map, month_strs,
                   warehouse_df, site_df, calculated_stock, discrepancies,
                   consolidated_monthly, files, normalized, all_reports>>

\* calculator.set_data(movement_data); calculator.run_supplier_case_analysis()
RunSupplierCaseAnalysis ==
    /\ pc = "loaded"
    /\ all_reports' = run_supplier_case_analysis(config, movement_data)
    /\ pc' = "analysed"
    /\ UNCHANGED <<config, movement_data, onhand_data, supplier, i, events, k,
                   prev_loc, prev_type, case_status, event_map, month_strs,
                   warehouse_df, site_df, calculated_stock, discrepancies,
                   consolidated_monthly, files, normalized>>

NextLoad ==
    \/ LoadMovementFile
    \/ RunSupplierCaseAnalysis

SpecLoad == InitLoad /\ [][NextLoad]_vars

-----------------------------------------------------------------------------
(* Claims *)

\* the number of events of event_map of type typ at loc for the case
CaseEventCount(case, typ, loc) ==
    Cardinality({ n \in DOMAIN event_map :
        event_map[n].case = case /\ event_map[n].type = typ /\ event_map[n].loc = loc })

\* C1: for every case and every warehouse w, after every prefix of the walk
\* over the case's sorted events, the outbound events emitted at w for the
\* case are at most as many as the inbound events emitted at w for it.
C1_OutboundAtMostInbound ==
    \A c \in Range(CaseIds), w \in Range(warehouse_cols) :
        CaseEventCount(c, "chulgo", w) <= CaseEventCount(c, "ipgo", w)

\* C1 witness: in the middle of a walk, a case has left the warehouse it
\* arrived at and has a further event to come
C1_Witness ==
    /\ pc = "walk"
    /\ k < Len(events)
    /\ \E c \in Range(CaseIds), w \in Range(warehouse_cols) :
        /\ CaseEventCount(c, "chulgo", w) = 1
        /\ CaseEventCount(c, "ipgo", w) = 1

\* the rows of the movement tables, as (supplier, row index), of a case
MovementRows(c) ==
    { sr \in UNION { { <<sup, r>> : r \in DOMAIN movement_data[sup] } :
                     sup \in DOMAIN movement_data } :
        movement_data[sr[1]][sr[2]].case_no = c }

\* the dates of a movement row in the columns cols, NaT left out
DatesIn(sr, cols) ==
    { movement_data[sr[1]][sr[2]].dates[col] : col \in Range(cols) } \ { NaT }

\* the case has a movement row, and in every row of it a site date that is
\* later than every warehouse date of every row of the case: its last
\* recorded movement is a site delivery in every table
Delivered(c) ==
    /\ MovementRows(c) # {}
    /\ \A sr \in MovementRows(c) :
        /\ DatesIn(sr, config.SITE_COLS) # {}
        /\ \E s \in DatesIn(sr, config.SITE_COLS) :
             \A sr2 \in MovementRows(c) :
               \A w \in DatesIn(sr2, Get(config.WAREHOUSE_COLS_MAP, sr2[1], <<>>)) :
                 LexLT(w, s)

\* the case has exactly one movement row, and its last recorded movement
\* is at a warehouse
StoredOnce(c) ==
    /\ Cardinality(MovementRows(c)) = 1
    /\ \A sr \in MovementRows(c) :
        \E w \in DatesIn(sr, Get(config.WAREHOUSE_COLS_MAP, sr[1], <<>>)) :
          \A s \in DatesIn(sr, config.SITE_COLS) : LexLT(s, w)

\* C2: a case whose last recorded movement is a site delivery (calculated
\* stock 0) and whose on-hand quantity is q # 0 appears in the result of
\* run_stock_verification with discrepancy q, whatever the other cases are.
C2_DeliveredCaseWithStockIsReported ==
    pc = "done" =>
        \A a \in Range(onhand_data) :
            (Delivered(a.case_no) /\ a.quantity # 0) =>
                \E d \in Range(discrepancies) :
                    d.case_no = a.case_no /\ d.Discrepancy = a.quantity

\* some movement table has a dated row: movement data is available
MovementAvailable ==
    \E sup \in DOMAIN movement_data : \E r \in DOMAIN movement_data[sup] :
        \E col \in DOMAIN movement_data[sup][r].dates :
            movement_data[sup][r].dates[col] # NaT

\* C3: when movement data is available and the on-hand table is not empty,
\* the reconciliation is a full outer join with missing values as 0: a case
\* only in the on-hand table gets calculated stock 0 and discrepancy =
\* actual; a case only in the movement tables, last at a warehouse, gets
\* actual 0 and discrepancy = -calculated (rows of difference 0 aside).
C3_FullOuterJoin ==
    (pc = "done" /\ MovementAvailable /\ onhand_data # <<>>) =>
        /\ \A a \in Range(onhand_data) :
            (MovementRows(a.case_no) = {} /\ a.quantity # 0) =>
                \E d \in Range(discrepancies) :
                    /\ d.case_no = a.case_no
                    /\ d.CalculatedStock = 0
                    /\ d.ActualQty = a.quantity
                    /\ d.Discrepancy = a.quantity
        /\ \A c \in Range(CaseIds) :
            \A sr \in MovementRows(c) :
              LET q == movement_data[sr[1]][sr[2]].quantity IN
              ( /\ StoredOnce(c)
                /\ q # 0
                /\ \A a \in Range(onhand_data) : a.case_no # c ) =>
                  \E d \in Range(discrepancies) :
                      /\ d.case_no = c
                      /\ d.CalculatedStock = q
                      /\ d.ActualQty = 0
                      /\ d.Discrepancy = 0 - q

\* C4: every row of the table run_stock_verification returns has
\* Discrepancy = ActualQty - CalculatedStock # 0, with the case's calculated
\* stock (0 when it has none) and an on-hand quantity of the case (0 when it
\* has none).
C4_OnlyNonZeroDifferences ==
    pc = "done" =>
        \A d \in Range(discrepancies) :
            /\ d.Discrepancy = d.ActualQty - d.CalculatedStock
            /\ d.Discrepancy # 0
            /\ d.CalculatedStock = Get(calculated_stock, d.case_no, 0)
            /\ \/ \E a \in Range(onhand_data) :
                    a.case_no = d.case_no /\ a.quantity = d.ActualQty
               \/ /\ d.ActualQty = 0
                  /\ \A a \in Range(onhand_data) : a.case_no # d.case_no

\* C4 witness: the result has a row, and a delivered case with on-hand
\* quantity 0 is not in it
C4_Witness ==
    /\ pc = "done"
    /\ discrepancies # <<>>
    /\ \E a \in Range(onhand_data) :
        /\ a.quantity = 0
        /\ Delivered(a.case_no)
        /\ \A d \in Range(discrepancies) : d.case_no # a.case_no

-----------------------------------------------------------------------------
(* Claims about the monthly tables *)

\* the month a 'YYYY-MM' string names, as a number of months
MonthNumber(m) ==
    12 * (1000 * (m[1] - 48) + 100 * (m[2] - 48) + 10 * (m[3] - 48) + (m[4] - 48))
      + 10 * (m[6] - 48) + (m[7] - 48)

\* the positions of the rows of a monthly table but the TOTAL row
MonthRows(table) == { r \in DOMAIN table : table[r].month # TOTAL }

\* C5: every stock cell (w, m) is the number of cases whose terminal state
\* is (w, warehouse, month <= m), and every cumulative-inbound cell (s, m)
\* the number of cases whose terminal state is (s, site, month <= m).
C5_CellsCountTerminalStates ==
    /\ \A r \in MonthRows(warehouse_df), w \in Range(warehouse_cols) :
        warehouse_df[r].cells[<<w, "jaego">>] =
            Cardinality({ n \in DOMAIN case_status :
                /\ case_status[n].loc = w
                /\ case_status[n].type = "warehouse"
                /\ MonthNumber(case_status[n].month)
                     <= MonthNumber(warehouse_df[r].month) })
    /\ \A r \in MonthRows(site_df), x \in Range(site_cols) :
        site_df[r].cells[<<x, "nujeok_ipgo">>] =
            Cardinality({ n \in DOMAIN case_status :
                /\ case_status[n].loc = x
                /\ case_status[n].type = "site"
                /\ MonthNumber(case_status[n].month)
                     <= MonthNumber(site_df[r].month) })

\* C5 witness: two reporting months; a warehouse holds no case in the first
\* and one in the second, and a site has a case delivered in the first
C5_Witness ==
    /\ pc = "calc"
    /\ Len(warehouse_df) = 3
    /\ \E w \in Range(warehouse_cols) :
        /\ warehouse_df[1].cells[<<w, "jaego">>] = 0
        /\ warehouse_df[2].cells[<<w, "jaego">>] = 1
    /\ \E x \in Range(site_cols) :
        /\ site_df[1].cells[<<x, "nujeok_ipgo">>] = 1
        /\ site_df[2].cells[<<x, "nujeok_ipgo">>] = 1

\* the sorted events of a row that are dated in month m or earlier
EventsAsOf(row, m) ==
    LET es == SortByDate(RowEvents(row, warehouse_cols, site_cols)) IN
    SelectSeqBy(es, { e \in Range(es) :
                        MonthNumber(MonthOf(e[1])) <= MonthNumber(m) })

\* the case of the row is in warehouse w as of month m: it arrived at w in
\* month m or earlier and has no later event up to month m
ResidentAsOf(row, w, m) ==
    LET es == EventsAsOf(row, m) IN
    es # <<>> /\ es[Len(es)][2] = w /\ es[Len(es)][3] = "warehouse_in"

\* C6: stock(w, m) is a point-in-time snapshot: the number of cases that
\* arrived at w in month m or earlier and have not departed w as of month m.
C6_StockIsSnapshotOfMonth ==
    \A r \in MonthRows(warehouse_df), w \in Range(warehouse_cols) :
        warehouse_df[r].cells[<<w, "jaego">>] =
            Cardinality({ n \in DOMAIN Df : ResidentAsOf(Df[n], w, warehouse_df[r].month) })

\* C7: for every warehouse w and reporting month m, stock(w, m) is the sum
\* of inbound(w, m') minus the sum of outbound(w, m') over the reporting
\* months m' <= m.
C7_StockIsInboundMinusOutbound ==
    \A r \in MonthRows(warehouse_df), w \in Range(warehouse_cols) :
        warehouse_df[r].cells[<<w, "jaego">>] =
            SumSeq([ q \in 1..r |-> warehouse_df[q].cells[<<w, "ipgo">>]
                                      - warehouse_df[q].cells[<<w, "chulgo">>] ])

\* the TOTAL row of a table is its last row and its only TOTAL row; its
\* inbound and outbound cells are the column sums over the other rows, its
\* stock and cumulative-inbound cells the cells of the row before it
TotalRowOf(table) ==
    table # <<>> =>
        LET n == Len(table) IN
        /\ n >= 2
        /\ table[n].month = TOTAL
        /\ MonthRows(table) = 1..(n - 1)
        /\ \A col \in DOMAIN table[n].cells :
            table[n].cells[col] =
                IF col[2] \in { "ipgo", "chulgo" }
                THEN SumSeq([ r \in 1..(n - 1) |-> table[r].cells[col] ])
                ELSE table[n - 1].cells[col]

\* C8: in every monthly warehouse or site table exactly one TOTAL row is
\* appended, as the last row; it holds the column sum for each inbound and
\* outbound column and the last month's value for each stock and
\* cumulative-inbound column.
C8_TotalRow == TotalRowOf(warehouse_df) /\ TotalRowOf(site_df)

\* C8 witness: two reporting months, a warehouse whose stock is 1 in both
\* (the sum would be 2) and whose inbound total is 2
C8_Witness ==
    /\ pc = "calc"
    /\ Len(warehouse_df) = 3
    /\ Len(site_df) = 3
    /\ \E w \in Range(warehouse_cols) :
        /\ warehouse_df[1].cells[<<w, "jaego">>] >= 1
        /\ warehouse_df[3].cells[<<w, "jaego">>] = warehouse_df[2].cells[<<w, "jaego">>]
        /\ warehouse_df[3].cells[<<w, "ipgo">>] = 2

\* the months, up to the target month, in which a row of the table has a
\* timestamp in a configured warehouse or site column
ObservedMonths ==
    { m \in { MonthOf(Df[r].dates[col]) :
                <<r, col>> \in { rc \in (DOMAIN Df) \X (Range(warehouse_cols) \cup Range(site_cols)) :
                                   Df[rc[1]].dates[rc[2]] # NaT } } :
        MonthNumber(m) <= MonthNumber(config.TARGET_MONTH) }

\* the rows of the table but the TOTAL row are the months of the set, one
\* row each, in strictly ascending order
MonthRowsAre(table, months) ==
    /\ Len(table) = Cardinality(months) + 1
    /\ { table[r].month : r \in MonthRows(table) } = months
    /\ \A r, q \in MonthRows(table) :
        r < q => MonthNumber(table[r].month) < MonthNumber(table[q].month)

\* C9: the rows of a supplier's monthly tables, the TOTAL row aside, are
\* exactly the months up to TARGET_MONTH in which a case has a timestamp in
\* a configured column, one row per month, ascending; if there is no such
\* month both tables are empty.
C9_RowsAreObservedMonths ==
    pc \in { "calc", "done" } =>
        IF ObservedMonths = {}
        THEN warehouse_df = <<>> /\ site_df = <<>>
        ELSE /\ MonthRowsAre(warehouse_df, ObservedMonths)
             /\ MonthRowsAre(site_df, ObservedMonths)

\* C9 witness: the tables have two month rows and a case has a timestamp
\* after the target month
C9_Witness ==
    /\ pc = "calc"
    /\ Len(warehouse_df) = 3
    /\ Len(site_df) = 3
    /\ \E r \in DOMAIN Df : \E col \in DOMAIN Df[r].dates :
        /\ Df[r].dates[col] # NaT
        /\ MonthNumber(MonthOf(Df[r].dates[col])) > MonthNumber(config.TARGET_MONTH)

\* the columns among cols in which the row has a timestamp
DatedCols(row, cols) == { col \in Range(cols) : row.dates[col] # NaT }

\* the events of event_map of the case, in order
EventsOfCase(c) ==
    SelectSeqBy(event_map, { e \in Range(event_map) : e.case = c })

\* the number of rows of the table other than row r with a timestamp of
\* month m in column col
OthersDatedIn(r, col, m) ==
    Cardinality({ q \in DOMAIN Df :
        q # r /\ Df[q].dates[col] # NaT /\ MonthOf(Df[q].dates[col]) = m })

\* the cell of the column in the row of month m of a monthly table; -1 when
\* the table has no row of the month
CellOf(table, m, col) ==
    IF \E r \in DOMAIN table : table[r].month = m
    THEN table[CHOOSE r \in DOMAIN table : table[r].month = m].cells[col]
    ELSE 0 - 1

\* row r has exactly one arrival, at warehouse w, and exactly one delivery,
\* to site x, not before the arrival and not after the target month
ArrivalThenDelivery(r, w, x) ==
    /\ DatedCols(Df[r], warehouse_cols) = { w }
    /\ DatedCols(Df[r], site_cols) = { x }
    /\ LexLE(Df[r].dates[w], Df[r].dates[x])
    /\ MonthNumber(MonthOf(Df[r].dates[x])) <= MonthNumber(config.TARGET_MONTH)

\* C10: a case whose only events are an arrival at warehouse W in month a
\* and a later delivery to site S in month b <= target month contributes
\* exactly +1 to inbound(W, a), +1 to outbound(W, b), +1 to inbound(S, b)
\* and nothing else, has terminal state (S, site, b), and has no
\* calculated stock in the reconciliation.
C10_ArrivalThenDelivery ==
    pc = "done" =>
        \A r \in DOMAIN Df, w \in Range(warehouse_cols), x \in Range(site_cols) :
            ArrivalThenDelivery(r, w, x) =>
                LET c == Df[r].case_no
                    a == MonthOf(Df[r].dates[w])
                    b == MonthOf(Df[r].dates[x])
                    others == SelectSeqBy(event_map, { e \in Range(event_map) : e.case # c })
                IN  /\ EventsOfCase(c) =
                         << [case |-> c, type |-> "ipgo", loc |-> w, month |-> a],
                            [case |-> c, type |-> "chulgo", loc |-> w, month |-> b],
                            [case |-> c, type |-> "site_in", loc |-> x, month |-> b] >>
                    /\ CellOf(warehouse_df, a, <<w, "ipgo">>) = 1 + OthersDatedIn(r, w, a)
                    /\ CellOf(warehouse_df, b, <<w, "chulgo">>) =
                         1 + Cardinality({ n \in DOMAIN others :
                                 /\ others[n].type = "chulgo"
                                 /\ others[n].loc = w
                                 /\ others[n].month = b })
                    /\ CellOf(site_df, b, <<x, "ipgo">>) = 1 + OthersDatedIn(r, x, b)
                    /\ SelectSeqBy(case_status, { st \in Range(case_status) : st.case = c })
                         = << [case |-> c, loc |-> x, type |-> "site", month |-> b] >>
                    /\ c \notin DOMAIN calculated_stock

\* C10 witness: a case arrives at a warehouse in one month and is delivered
\* in a later one, and another case arrives at the same warehouse in the
\* same month
C10_Witness ==
    /\ pc = "done"
    /\ \E r \in DOMAIN Df, w \in Range(warehouse_cols), x \in Range(site_cols) :
        /\ ArrivalThenDelivery(r, w, x)
        /\ MonthOf(Df[r].dates[w]) # MonthOf(Df[r].dates[x])
        /\ OthersDatedIn(r, w, MonthOf(Df[r].dates[w])) = 1

-----------------------------------------------------------------------------
(* Claims about stock over the months and about the order of the cases *)

\* the number of rows of the table with a timestamp in column w
EverArrived(w) == Cardinality({ r \in DOMAIN Df : Df[r].dates[w] # NaT })

\* C11: for every warehouse w and every reporting month m, stock(w, m) is at
\* most the number of cases with a timestamp in column w.
C11_StockAtMostEverArrived ==
    \A r \in MonthRows(warehouse_df), w \in Range(warehouse_cols) :
        warehouse_df[r].cells[<<w, "jaego">>] <= EverArrived(w)

\* C11 witness: a warehouse at which two cases arrived holds one of them in
\* the last reporting month and none in the first
C11_Witness ==
    /\ pc = "done"
    /\ Len(warehouse_df) = 3
    /\ \E w \in Range(warehouse_cols) :
        /\ EverArrived(w) = 2
        /\ warehouse_df[1].cells[<<w, "jaego">>] = 0
        /\ warehouse_df[2].cells[<<w, "jaego">>] = 1

\* row r arrives at warehouse w in a reporting month and is delivered to a
\* site in a later reporting month, these being its only events, and no
\* other row has a timestamp in column w
CountedThenDeparts(r, w) ==
    /\ \E x \in Range(site_cols) :
        /\ ArrivalThenDelivery(r, w, x)
        /\ MonthNumber(MonthOf(Df[r].dates[w])) < MonthNumber(MonthOf(Df[r].dates[x]))
    /\ \A q \in DOMAIN Df : q # r => Df[q].dates[w] = NaT

\* C12: stock(w, .) can fall: when a case that arrived at w in a reporting
\* month, the only case at w, departs to a site in a later reporting
\* month, stock(w, .) is 1 in the month of the arrival and lower in the
\* month of the departure.
C12_StockFallsOnDeparture ==
    pc = "done" =>
        \A r \in DOMAIN Df, w \in Range(warehouse_cols) :
            CountedThenDeparts(r, w) =>
                LET x == CHOOSE y \in Range(site_cols) : ArrivalThenDelivery(r, w, y)
                    a == MonthOf(Df[r].dates[w])
                    b == MonthOf(Df[r].dates[x])
                IN  /\ CellOf(warehouse_df, a, <<w, "jaego">>) = 1
                    /\ CellOf(warehouse_df, b, <<w, "jaego">>)
                         < CellOf(warehouse_df, a, <<w, "jaego">>)

\* the orders of n rows: the permutations of 1..n
RowOrders(n) ==
    { p \in [ 1..n -> 1..n ] : \A a, b \in 1..n : p[a] = p[b] => a = b }

-----------------------------------------------------------------------------
(* Claims about the walk over a case's events *)

\* what the walk emits for the sorted events es of a case, by the rule of
\* the claim: an inbound event for a warehouse_in; for a site_out, an
\* outbound event at the location of the event before it when that event
\* is a warehouse_in, and then the site-inbound event
RECURSIVE EmittedFor(_, _, _)
EmittedFor(case, es, n) ==
    IF n = 0 THEN <<>>
    ELSE EmittedFor(case, es, n - 1) \o
         (IF es[n][3] = "warehouse_in"
          THEN << [case |-> case, type |-> "ipgo", loc |-> es[n][2],
                   month |-> MonthOf(es[n][1])] >>
          ELSE (IF n > 1 /\ es[n - 1][3] = "warehouse_in"
                THEN << [case |-> case, type |-> "chulgo", loc |-> es[n - 1][2],
                         month |-> MonthOf(es[n][1])] >>
                ELSE <<>>)
               \o << [case |-> case, type |-> "site_in", loc |-> es[n][2],
                       month |-> MonthOf(es[n][1])] >>)

\* C20: after every prefix of the walk over a case's sorted events, the
\* emitted events are, event by event: for a site_out, one outbound event
\* immediately before the site-inbound event if and only if the event
\* before it is a warehouse_in; no outbound event for a site_out that is
\* the first event or follows a site_out; none for a warehouse_in.
C20_OutboundIffAfterWarehouse ==
    event_map = IF events = <<>> THEN <<>>
                ELSE EmittedFor(Df[1].case_no, events, k)

\* C20 witness: a case delivered to a site before it arrives at a
\* warehouse, from which it is delivered to a second site: the walk is
\* over, with no outbound event before the first site-inbound event and one
\* before the second
C20_Witness ==
    /\ pc = "case_done"
    /\ Len(events) = 3
    /\ events[1][3] = "site_out"
    /\ events[2][3] = "warehouse_in"
    /\ events[3][3] = "site_out"
    /\ Len(event_map) = 4
    /\ event_map[1].type = "site_in"
    /\ event_map[3].type = "chulgo"
    /\ event_map[4].type = "site_in"

\* the (outbound location, site) pairs of the event map: an outbound event
\* and the site-inbound event right after it, the excluded warehouses
\* dropped
RECURSIVE DeparturesOf(_)
DeparturesOf(evmap) ==
    IF Len(evmap) < 2 THEN <<>>
    ELSE (IF /\ evmap[1].type = "chulgo"
             /\ evmap[2].type = "site_in"
             /\ evmap[1].loc \notin ExcludedWarehouses
          THEN << << evmap[1].loc, evmap[2].loc >> >>
          ELSE <<>>)
         \o DeparturesOf(Tail(evmap))

-----------------------------------------------------------------------------
(* Claims about the reconciliation without movement data *)

-----------------------------------------------------------------------------
(* Claims about the consolidated monthly table *)

-----------------------------------------------------------------------------
(* Claims about normalization *)

\* C18: when a table has a case number column and a row without a case
\* number, normalize does not reject the table and returns the other rows,
\* all of them and in order, without that row.
C18_OnlyRowWithoutCaseIsDropped ==
    ( /\ pc = "normalized"
      /\ "Case No." \in raw_df.columns
      /\ \E r \in DOMAIN raw_df.rows : raw_df.rows[r].case_no = NaN ) =>
        /\ normalized.kind # "None"
        /\ normalized.kind = "ok" =>
             [ r \in DOMAIN normalized.table |-> normalized.table[r].case_no ]
               = LET kept == SelectSeqBy(raw_df.rows,
                                { x \in Range(raw_df.rows) : x.case_no # NaN })
                 IN  [ r \in DOMAIN kept |-> kept[r].case_no ]

\* the quantity cell of a row is present and is a number
QuantityParseable(df, row) == "QTY" \in df.columns /\ row.quantity.kind = "num"

\* the unit of a row is 'EA', in any case of the letters
UnitIsEach(df, row) == "Unit" \in df.columns /\ row.unit \in { "EA", "ea" }

\* C19: in the table normalize returns, the quantity of every row is a
\* number >= 0: the source value when it is present and a number; 1 when it
\* is absent or not a number and the unit is EA; 0 when it is absent or not
\* a number and the unit is anything else or missing.
C19_QuantityDefault ==
    (pc = "normalized" /\ normalized.kind = "ok") =>
        \A r \in DOMAIN normalized.table :
            LET row == raw_df.rows[r]
                q == normalized.table[r].quantity
            IN  /\ q >= 0
                /\ q = IF QuantityParseable(raw_df, row) THEN row.quantity.value
                       ELSE IF UnitIsEach(raw_df, row) THEN 1
                       ELSE 0

-----------------------------------------------------------------------------
(* Claims about loading *)

\* the file is there, is read, and normalize returns a table for it: the
\* table has a row and a case number column, and normalize does not raise
FileYieldsTable(file) ==
    /\ file.exists
    /\ file.readable
    /\ file.df.rows # <<>>
    /\ "Case No." \in file.df.columns
    /\ ~ ( /\ { "QTY", "Unit" } \subseteq file.df.columns
           /\ \A r \in DOMAIN file.df.rows : file.df.rows[r].unit = NaN )

-----------------------------------------------------------------------------
(* Claims about the order of a case's events and its terminal state *)

\* the (location, month) tags the claim gives the outbound events of the
\* first n sorted events es: for every site delivery directly after a
\* warehouse arrival, the warehouse of the arrival and the month of the
\* delivery
RECURSIVE OutboundTags(_, _)
OutboundTags(es, n) ==
    IF n < 2 THEN <<>>
    ELSE OutboundTags(es, n - 1) \o
         (IF es[n][3] = "site_out" /\ es[n - 1][3] = "warehouse_in"
          THEN << << es[n - 1][2], MonthOf(es[n][1]) >> >>
          ELSE <<>>)

\* the (location, month) tags of the outbound events of an event map
OutboundsOf(evmap) ==
    LET out == SelectSeqBy(evmap, { e \in Range(evmap) : e.type = "chulgo" }) IN
    [ n \in DOMAIN out |-> << out[n].loc, out[n].month >> ]

\* C21: after every prefix of the walk, the outbound events carry, in
\* order, the location of the warehouse arrival directly before the site
\* delivery that made them and the month of that delivery; when the arrival
\* is in another month, no outbound event of that warehouse carries the
\* month of the arrival.
C21_OutboundTaggedPrevLocCurrentMonth ==
    events # <<>> =>
        /\ OutboundsOf(event_map) = OutboundTags(events, k)
        /\ \A j \in 2..k :
             ( /\ events[j][3] = "site_out"
               /\ events[j - 1][3] = "warehouse_in"
               /\ MonthOf(events[j - 1][1]) # MonthOf(events[j][1]) ) =>
                 \A n \in DOMAIN event_map :
                     ~ ( /\ event_map[n].type = "chulgo"
                         /\ event_map[n].loc = events[j - 1][2]
                         /\ event_map[n].month = MonthOf(events[j - 1][1]) )

\* C21 witness: the walk is over for a case that arrived at a warehouse in
\* one month and was delivered to a site in a later month; the outbound
\* event carries the warehouse and the month of the delivery
C21_Witness ==
    /\ pc = "case_done"
    /\ \E j \in 2..Len(events) :
         /\ events[j][3] = "site_out"
         /\ events[j - 1][3] = "warehouse_in"
         /\ MonthOf(events[j - 1][1]) # MonthOf(events[j][1])
         /\ \E n \in DOMAIN event_map :
               /\ event_map[n].type = "chulgo"
               /\ event_map[n].loc = events[j - 1][2]
               /\ event_map[n].month = MonthOf(events[j][1])

\* the position of a column in the order the columns are read: the
\* warehouse columns as configured, then the site columns as configured
ColumnIndex(col) ==
    CHOOSE n \in DOMAIN (warehouse_cols \o site_cols) :
        (warehouse_cols \o site_cols)[n] = col

\* C23: the events the walk goes over are the timestamped columns of the
\* row, each once, in ascending order of timestamp; events of the same
\* timestamp are in the order of their columns, a warehouse arrival before
\* a site delivery.
C23_SortedByTimestampTiesByColumn ==
    pc \in { "walk", "case_done" } =>
        /\ { events[n][2] : n \in DOMAIN events }
             = DatedCols(Df[1], warehouse_cols \o site_cols)
        /\ \A n \in DOMAIN events :
             /\ events[n][1] = Df[1].dates[events[n][2]]
             /\ events[n][3] = IF events[n][2] \in Range(warehouse_cols)
                               THEN "warehouse_in" ELSE "site_out"
        /\ \A a, b \in DOMAIN events : a < b =>
             /\ events[a][2] # events[b][2]
             /\ LexLE(events[a][1], events[b][1])
             /\ events[a][1] = events[b][1] =>
                  /\ ColumnIndex(events[a][2]) < ColumnIndex(events[b][2])
                  /\ ~ (events[a][3] = "site_out" /\ events[b][3] = "warehouse_in")

\* C23 witness: the walk is over for a case with a warehouse arrival and a
\* site delivery of the same timestamp, and an earlier event in a later
\* column; the arrival is walked before the delivery and the outbound event
\* is emitted
C23_Witness ==
    /\ pc = "case_done"
    /\ \E a \in DOMAIN events :
         /\ a + 1 \in DOMAIN events
         /\ events[a][1] = events[a + 1][1]
         /\ events[a][3] = "warehouse_in"
         /\ events[a + 1][3] = "site_out"
    /\ \E a, b \in DOMAIN events :
         a < b /\ ColumnIndex(events[a][2]) > ColumnIndex(events[b][2])
    /\ \E n \in DOMAIN event_map : event_map[n].type = "chulgo"

\* the rows of the table with at least one timestamp, in order
RowsWithEvents ==
    SelectSeqBy(Df, { row \in Range(Df) :
                        DatedCols(row, warehouse_cols \o site_cols) # {} })

\* the column of the last event of a row: its timestamp is the latest of
\* the row, and of the columns with that timestamp it is the last one read
LastEventColumn(row) ==
    CHOOSE col \in DatedCols(row, warehouse_cols \o site_cols) :
        \A other \in DatedCols(row, warehouse_cols \o site_cols) :
            \/ LexLT(row.dates[other], row.dates[col])
            \/ /\ row.dates[other] = row.dates[col]
               /\ ColumnIndex(other) <= ColumnIndex(col)

\* C22: once _track_case_events has run, case_status holds one terminal
\* state for every row with a timestamp, in row order, and none for the
\* other rows: the location and the month of the row's last event, with kind
\* 'warehouse' when that location is a warehouse column and 'site' when it
\* is a site column.
C22_OneTerminalStatePerCaseWithEvents ==
    (pc \notin { "start", "track" } /\ month_strs # <<>>) =>
        /\ Len(case_status) = Len(RowsWithEvents)
        /\ \A n \in DOMAIN case_status :
             LET row == RowsWithEvents[n]
                 col == LastEventColumn(row)
             IN  case_status[n] =
                    [ case |-> row.case_no,
                      loc |-> col,
                      type |-> IF col \in Range(warehouse_cols) THEN "warehouse"
                               ELSE "site",
                      month |-> MonthOf(row.dates[col]) ]

\* C22 witness: a table of a row without timestamps and a row that arrived
\* at a warehouse and was later delivered to a site has one terminal state,
\* at the site
C22_Witness ==
    /\ pc = "aggregate_warehouse"
    /\ Len(Df) = 2
    /\ Len(case_status) = 1
    /\ case_status[1].type = "site"
    /\ \E r \in DOMAIN Df, w \in Range(warehouse_cols) :
         /\ Df[r].case_no = case_status[1].case
         /\ Df[r].dates[w] # NaT
         /\ LexLT(Df[r].dates[w], Df[r].dates[case_status[1].loc])

-----------------------------------------------------------------------------
(* Claims about the calculated stock *)

\* the location columns of a supplier's table in the order they are melted
MeltedCols(sup) == Get(config.WAREHOUSE_COLS_MAP, sup, <<>>) \o config.SITE_COLS

\* the position of a column in the melted order
MeltedIndex(sup, col) ==
    CHOOSE n \in DOMAIN MeltedCols(sup) : MeltedCols(sup)[n] = col

\* the timestamped cells of a case, as (supplier, row index, column)
DatedCells(c) ==
    UNION { { << sr[1], sr[2], col >> :
                col \in { x \in Range(MeltedCols(sr[1])) :
                            movement_data[sr[1]][sr[2]].dates[x] # NaT } } :
            sr \in MovementRows(c) }

\* the timestamp of a cell
DateOf(x) == movement_data[x[1]][x[2]].dates[x[3]]

\* the cell x is before the cell y of the same table in the order of the
\* sorted melted table: an earlier timestamp, or the same timestamp and an
\* earlier column, or the same timestamp and column and an earlier row
MeltedBefore(x, y) ==
    \/ LexLT(DateOf(x), DateOf(y))
    \/ /\ DateOf(x) = DateOf(y)
       /\ \/ MeltedIndex(x[1], x[3]) < MeltedIndex(y[1], y[3])
          \/ x[3] = y[3] /\ x[2] < y[2]

\* the most recent timestamped location of a row of a table
RowLastColumn(sr) ==
    CHOOSE col \in Range(MeltedCols(sr[1])) :
        /\ << sr[1], sr[2], col >> \in DatedCells(movement_data[sr[1]][sr[2]].case_no)
        /\ \A x \in DatedCells(movement_data[sr[1]][sr[2]].case_no) :
              (x[1] = sr[1] /\ x[2] = sr[2] /\ x[3] # col) =>
                  MeltedBefore(x, << sr[1], sr[2], col >>)

\* the rows of a case with a timestamp whose most recent timestamped
\* location is a warehouse column of their supplier
RowsLastAtWarehouse(c) ==
    { sr \in MovementRows(c) :
        /\ \E x \in DatedCells(c) : x[1] = sr[1] /\ x[2] = sr[2]
        /\ RowLastColumn(sr) \in Range(Get(config.WAREHOUSE_COLS_MAP, sr[1], <<>>)) }

\* the sum of the quantity of a set of rows
RECURSIVE SumRowQuantity(_)
SumRowQuantity(S) ==
    IF S = {} THEN 0
    ELSE LET sr == CHOOSE x \in S : TRUE IN
         movement_data[sr[1]][sr[2]].quantity + SumRowQuantity(S \ { sr })

\* the rows of the case are all in one supplier's table
InOneTable(c) ==
    /\ MovementRows(c) # {}
    /\ \A sr, sr2 \in MovementRows(c) : sr[1] = sr2[1]

C25_OneLastRowAcrossSuppliers ==
    (pc = "done" /\ onhand_data # <<>>) =>
        \A c \in Range(CaseIds) :
            \A last \in DatedCells(c) :
                ( /\ ~InOneTable(c)
                  /\ \A y \in DatedCells(c) \ { last } : LexLT(DateOf(y), DateOf(last)) ) =>
                    IF last[3] \in Range(Get(config.WAREHOUSE_COLS_MAP, last[1], <<>>))
                    THEN /\ c \in DOMAIN calculated_stock
                         /\ calculated_stock[c] = movement_data[last[1]][last[2]].quantity
                    ELSE c \notin DOMAIN calculated_stock

-----------------------------------------------------------------------------
(* Claims about rows without timestamps *)

\* C26: once _process_supplier has returned, no event and no terminal
\* state is of a row without timestamps, and the monthly tables, the events
\* and the terminal states are those of the table without its rows without
\* timestamps; so two tables that differ only in rows without timestamps,
\* added or removed anywhere, have the same monthly tables and events.
C26_RowWithoutTimestampsChangesNothing ==
    pc = "processed" =>
        /\ \A r \in DOMAIN Df :
             DatedCols(Df[r], warehouse_cols \o site_cols) = {} =>
                /\ \A n \in DOMAIN event_map : event_map[n].case # Df[r].case_no
                /\ \A n \in DOMAIN case_status : case_status[n].case # Df[r].case_no
        /\ process_supplier(config, RowsWithEvents, warehouse_cols)
             = [ warehouse_df |-> warehouse_df, site_df |-> site_df ]
        /\ month_strs # <<>> =>
             track_case_events(RowsWithEvents, warehouse_cols, site_cols)
               = [ case_status |-> case_status, event_map |-> event_map ]

\* C26 witness: _process_supplier has returned monthly tables for a table
\* with a row without timestamps before a row with an arrival and a
\* delivery
C26_Witness ==
    /\ pc = "processed"
    /\ Len(Df) = 2
    /\ DatedCols(Df[1], warehouse_cols \o site_cols) = {}
    /\ Cardinality(DatedCols(Df[2], warehouse_cols \o site_cols)) >= 2
    /\ warehouse_df # <<>>
    /\ Len(case_status) = 1
    /\ \E n \in DOMAIN event_map : event_map[n].type = "chulgo"

-----------------------------------------------------------------------------
(* Claims about the monthly tables and the rows of the movement table *)

\* the month of the last event of a row with a timestamp
LastEventMonth(row) == MonthOf(row.dates[LastEventColumn(row)])

\* the rows with a timestamp whose last event is of a month up to m
RowsLastUpTo(m) ==
    { q \in DOMAIN Df :
        /\ DatedCols(Df[q], warehouse_cols \o site_cols) # {}
        /\ MonthNumber(LastEventMonth(Df[q])) <= MonthNumber(m) }

\* C27: no case is counted twice across locations: with pairwise distinct
\* location names and one row per case, for every reported month m the sum
\* of the stock cells of m over the warehouses plus the sum of the
\* cumulative-inbound cells of m over the sites is the number of cases with
\* a timestamp whose last event is of a month up to m.
C27_NoCaseCountedTwice ==
    pc = "done" =>
        \A r \in MonthRows(warehouse_df) :
            LET m == warehouse_df[r].month IN
            SumSeq([ n \in DOMAIN warehouse_cols |->
                        warehouse_df[r].cells[<<warehouse_cols[n], "jaego">>] ])
              + SumSeq([ n \in DOMAIN site_cols |->
                        CellOf(site_df, m, <<site_cols[n], "nujeok_ipgo">>) ])
              = Cardinality(RowsLastUpTo(m))

\* C27 witness: both monthly tables are built for a table of two cases, one
\* that moved from a warehouse to another and one that was delivered to the
\* site, and in the last reported month both are counted
C27_Witness ==
    /\ pc = "done"
    /\ Len(Df) = 2
    /\ \E p, q \in DOMAIN Df :
        /\ Cardinality(DatedCols(Df[p], warehouse_cols)) = 2
        /\ LastEventColumn(Df[p]) \in Range(warehouse_cols)
        /\ DatedCols(Df[q], site_cols) # {}
        /\ LastEventColumn(Df[q]) \in Range(site_cols)
    /\ \E r \in MonthRows(warehouse_df) :
        Cardinality(RowsLastUpTo(warehouse_df[r].month)) = 2

\* the rows that survive the warehouse filter of
\* _calculate_stock_from_movements for the supplier's table
SurvivingRows == SupplierStatuses(config, supplier, Df).rows

\* the terminal states _track_case_events gives for the supplier's table
TerminalStates == track_case_events(Df, warehouse_cols, site_cols).case_status

\* C28: the two reconstructions of a case's last location agree: for every
\* case of a single supplier with a unique case id, the case's row survives
\* the warehouse filter of _calculate_stock_from_movements at location L
\* if and only if _track_case_events gives it terminal state (L, warehouse),
\* also when several locations share the latest timestamp; the cases with
\* a calculated stock are the cases of the surviving rows, and the terminal
\* states are those the monthly report has recorded.
C28_LastLocationsAgree ==
    pc = "done" =>
        LET surviving == SurvivingRows
            terminal == TerminalStates
        IN  /\ \A r \in DOMAIN Df, L \in Range(warehouse_cols \o site_cols) :
                 (\E e \in surviving : e.case_no = Df[r].case_no /\ e.location = L)
                   <=> (\E n \in DOMAIN terminal :
                          /\ terminal[n].case = Df[r].case_no
                          /\ terminal[n].loc = L
                          /\ terminal[n].type = "warehouse")
            /\ DOMAIN calculated_stock = { e.case_no : e \in surviving }
            /\ month_strs # <<>> => case_status = terminal

\* C28 witness: the stock is calculated for a table of two cases, one whose
\* two warehouses share its latest timestamp and one whose second warehouse
\* and site share its latest timestamp; only the first has a calculated
\* stock
C28_Witness ==
    /\ pc = "done"
    /\ Len(Df) = 2
    /\ \E p, q \in DOMAIN Df :
        /\ Df[p].dates[warehouse_cols[1]] # NaT
        /\ Df[p].dates[warehouse_cols[1]] = Df[p].dates[warehouse_cols[2]]
        /\ Df[p].dates[site_cols[1]] = NaT
        /\ Df[q].dates[warehouse_cols[2]] # NaT
        /\ Df[q].dates[warehouse_cols[2]] = Df[q].dates[site_cols[1]]
        /\ Df[q].dates[warehouse_cols[1]] = NaT
        /\ DOMAIN calculated_stock = { Df[p].case_no }
        /\ \E e \in SurvivingRows : e.location = warehouse_cols[2]

-----------------------------------------------------------------------------
(* Claims about the target month *)

\* the month is not after the target month
UpToTarget(m) == MonthNumber(m) <= MonthNumber(config.TARGET_MONTH)

\* the last event of row q is of a month after the target month
LateCase(q) ==
    /\ DatedCols(Df[q], warehouse_cols \o site_cols) # {}
    /\ ~UpToTarget(LastEventMonth(Df[q]))

\* the number of timestamps of column col of a month up to the target month
DatedUpToTarget(col) ==
    Cardinality({ q \in DOMAIN Df :
        Df[q].dates[col] # NaT /\ UpToTarget(MonthOf(Df[q].dates[col])) })

\* C29: the cutoff at the target month removes rows but not events: a case
\* whose last event is of a month after TARGET_MONTH is counted in no stock
\* and no cumulative-inbound cell of a reported month, while each of its
\* events of a month up to TARGET_MONTH is counted once in its inbound or
\* outbound cell; no month after TARGET_MONTH is reported and the totals of
\* the inbound columns count the timestamps up to TARGET_MONTH only, so an
\* event after TARGET_MONTH is counted in no cell.
C29_CutoffRemovesRowsNotEvents ==
    pc = "done" =>
        /\ \A r \in MonthRows(warehouse_df) : UpToTarget(warehouse_df[r].month)
        /\ \A r \in MonthRows(site_df) : UpToTarget(site_df[r].month)
        /\ \A r \in DOMAIN warehouse_df, w \in Range(warehouse_cols) :
             warehouse_df[r].month = TOTAL =>
                warehouse_df[r].cells[<<w, "ipgo">>] = DatedUpToTarget(w)
        /\ \A r \in DOMAIN site_df, x \in Range(site_cols) :
             site_df[r].month = TOTAL =>
                site_df[r].cells[<<x, "ipgo">>] = DatedUpToTarget(x)
        /\ LET dated == { p \in DOMAIN Df :
                            DatedCols(Df[p], warehouse_cols \o site_cols) # {} }
               \* the location and the month of the last event of the rows
               last_loc == [ p \in dated |-> LastEventColumn(Df[p]) ]
               last_month == [ p \in dated |->
                                 MonthNumber(MonthOf(Df[p].dates[last_loc[p]])) ]
               \* the rows other than q last at loc in a month up to m
               OthersLastAt(q, loc, m) ==
                   { p \in dated \ { q } :
                       last_loc[p] = loc /\ last_month[p] <= MonthNumber(m) }
           IN  \A q \in dated :
                 last_month[q] > MonthNumber(config.TARGET_MONTH) =>
                    LET c == Df[q].case_no
                        others == SelectSeqBy(event_map,
                                      { e \in Range(event_map) : e.case # c })
                    IN  /\ \A r \in MonthRows(warehouse_df), w \in Range(warehouse_cols) :
                              warehouse_df[r].cells[<<w, "jaego">>] =
                                  Cardinality(OthersLastAt(q, w, warehouse_df[r].month))
                        /\ \A r \in MonthRows(site_df), x \in Range(site_cols) :
                              site_df[r].cells[<<x, "nujeok_ipgo">>] =
                                  Cardinality(OthersLastAt(q, x, site_df[r].month))
                        /\ \A w \in DatedCols(Df[q], warehouse_cols) :
                              UpToTarget(MonthOf(Df[q].dates[w])) =>
                                  CellOf(warehouse_df, MonthOf(Df[q].dates[w]), <<w, "ipgo">>)
                                    = 1 + OthersDatedIn(q, w, MonthOf(Df[q].dates[w]))
                        /\ \A x \in DatedCols(Df[q], site_cols) :
                              UpToTarget(MonthOf(Df[q].dates[x])) =>
                                  CellOf(site_df, MonthOf(Df[q].dates[x]), <<x, "ipgo">>)
                                    = 1 + OthersDatedIn(q, x, MonthOf(Df[q].dates[x]))
                        /\ \A n \in DOMAIN event_map :
                              ( /\ event_map[n].case = c
                                /\ event_map[n].type = "chulgo"
                                /\ UpToTarget(event_map[n].month) ) =>
                                  CellOf(warehouse_df, event_map[n].month,
                                         <<event_map[n].loc, "chulgo">>)
                                    = 1 + Cardinality({ o \in DOMAIN others :
                                            /\ others[o].type = "chulgo"
                                            /\ others[o].loc = event_map[n].loc
                                            /\ others[o].month = event_map[n].month })

\* C29 witness: the monthly tables are built for a case that arrives at the
\* first warehouse in a month up to the target month, is delivered to the
\* site in a later month up to the target month and arrives at the second
\* warehouse after the target month: its arrival, its departure and its
\* delivery are counted, and no stock or cumulative-inbound cell counts it
C29_Witness ==
    /\ pc = "done"
    /\ \E q \in DOMAIN Df :
        LET w == warehouse_cols[1]
            x == site_cols[1]
        IN  /\ LateCase(q)
            /\ LastEventColumn(Df[q]) = warehouse_cols[2]
            /\ Df[q].dates[w] # NaT
            /\ Df[q].dates[x] # NaT
            /\ UpToTarget(MonthOf(Df[q].dates[x]))
            /\ MonthNumber(MonthOf(Df[q].dates[w])) < MonthNumber(MonthOf(Df[q].dates[x]))
            /\ CellOf(warehouse_df, MonthOf(Df[q].dates[w]), <<w, "ipgo">>) = 1
            /\ CellOf(warehouse_df, MonthOf(Df[q].dates[x]), <<w, "chulgo">>) = 1
            /\ CellOf(site_df, MonthOf(Df[q].dates[x]), <<x, "ipgo">>) = 1
            /\ \A r \in MonthRows(warehouse_df) :
                  warehouse_df[r].cells[<<w, "jaego">>] = 0
            /\ \A r \in MonthRows(site_df) :
                  site_df[r].cells[<<x, "nujeok_ipgo">>] = 0

-----------------------------------------------------------------------------
(* Claims about the cumulative inbound of a site *)

\* sum of the inbound cells of site x over the reported months up to m
InboundUpTo(x, m) ==
    SumSeq([ r \in 1..Len(site_df) |->
        IF site_df[r].month # TOTAL /\ MonthNumber(site_df[r].month) <= MonthNumber(m)
        THEN site_df[r].cells[<<x, "ipgo">>] ELSE 0 ])

\* cumulative_inbound(x, .) is non-decreasing over the reported months and
\* never exceeds the sum of the inbound cells up to the month
CumulativeInboundBounded(x) ==
    /\ \A r, q \in MonthRows(site_df) :
         r < q => site_df[r].cells[<<x, "nujeok_ipgo">>]
                    <= site_df[q].cells[<<x, "nujeok_ipgo">>]
    /\ \A r \in MonthRows(site_df) :
         site_df[r].cells[<<x, "nujeok_ipgo">>] <= InboundUpTo(x, site_df[r].month)

\* in every reported month the cumulative inbound of x is the sum of the
\* inbound cells up to the month
CumulativeIsSumOfInbound(x) ==
    \A r \in MonthRows(site_df) :
        site_df[r].cells[<<x, "nujeok_ipgo">>] = InboundUpTo(x, site_df[r].month)

\* row q is delivered to site x and has a later event at another location
DeliveredThenMoved(q, x) ==
    /\ Df[q].dates[x] # NaT
    /\ LastEventColumn(Df[q]) # x

\* C30 as stated: for every site s, cumulative_inbound(s, .) is
\* non-decreasing over the reported months and at most the sum of
\* inbound(s, .) up to the month, and the two are equal in every reported
\* month exactly when no case delivered to s has a later event at another
\* location.
C30_EqualIffNoLaterEvent ==
    (pc = "processed" /\ month_strs # <<>>) =>
        \A x \in Range(site_cols) :
            /\ CumulativeInboundBounded(x)
            /\ CumulativeIsSumOfInbound(x)
                 <=> ~(\E q \in DOMAIN Df : DeliveredThenMoved(q, x))

\* C30 as amended: the same, the two being equal in every reported month
\* exactly when no case delivered to s in a month up to TARGET_MONTH has a
\* later event at another location.
C30_EqualIffNoLaterEventOfReportedDelivery ==
    (pc = "processed" /\ month_strs # <<>>) =>
        \A x \in Range(site_cols) :
            /\ CumulativeInboundBounded(x)
            /\ CumulativeIsSumOfInbound(x)
                 <=> ~(\E q \in DOMAIN Df :
                         /\ DeliveredThenMoved(q, x)
                         /\ UpToTarget(MonthOf(Df[q].dates[x])))

\* C30 witness: two months are reported; a case delivered to the first
\* site in the first month moves on to the second site in the second
\* month, and another case is delivered to the second site in the first
\* month: the cumulative inbound of the first site stays below its inbound,
\* and that of the second site rises from 1 to 2 with its inbound
C30_Witness ==
    /\ pc = "processed"
    /\ Len(site_df) = 3
    /\ \E q, p \in DOMAIN Df :
        /\ DeliveredThenMoved(q, site_cols[1])
        /\ UpToTarget(LastEventMonth(Df[q]))
        /\ ~DeliveredThenMoved(p, site_cols[2])
        /\ Df[p].dates[site_cols[2]] # NaT
    /\ ~CumulativeIsSumOfInbound(site_cols[1])
    /\ CumulativeIsSumOfInbound(site_cols[2])
    /\ site_df[1].cells[<<site_cols[2], "nujeok_ipgo">>] = 1
    /\ site_df[2].cells[<<site_cols[2], "nujeok_ipgo">>] = 2

====
